---- MODULE Spec2Model ----
(***************************************************************************)
(* GARUDA scoring and forecasting engine.                                  *)
(*                                                                         *)
(* Representation of Python values:                                        *)
(*   - a str that the code lowers, searches or concatenates is a sequence  *)
(*     of one-character strings; a str that is only compared or used as a  *)
(*     dict key is a TLA+ string;                                          *)
(*   - an argument that is a str or None is [str |-> characters] or None; *)
(*   - a dict is a function, an object is a record of its attributes, and  *)
(*     hasattr(o, a) is a \in DOMAIN o;                                    *)
(*   - latitude and longitude are integers in units of 0.0001 degree;      *)
(*   - a distance in km is an integer in units of 0.0001 km;               *)
(*   - a shapely area (square degrees) is an integer in units of 1e-10     *)
(*     square degree, an area in square metres is a whole number of them.  *)
(***************************************************************************)
EXTENDS Integers, Sequences, FiniteSets, TLC

\* ------------------------------------------------------------------------
\* Python helpers
\* ------------------------------------------------------------------------

None == [NoneType |-> TRUE]

hasattr(o, a) == a \in DOMAIN o

\* a str object
Str(chars) == [str |-> chars]

isinstance_str(v) == "str" \in DOMAIN v

\* the empty dict
EmptyDict == [k \in {} |-> k]

Abs(x) == IF x < 0 THEN -x ELSE x

Max2(a, b) == IF a >= b THEN a ELSE b

Min2(a, b) == IF a <= b THEN a ELSE b

UpperChars == <<"A","B","C","D","E","F","G","H","I","J","K","L","M","N","O","P","Q","R","S","T","U","V","W","X","Y","Z">>

LowerChars == <<"a","b","c","d","e","f","g","h","i","j","k","l","m","n","o","p","q","r","s","t","u","v","w","x","y","z">>

\* str.lower() of one character
LowerChar(c) ==
    IF \E i \in 1..Len(UpperChars) : UpperChars[i] = c
    THEN LowerChars[CHOOSE i \in 1..Len(UpperChars) : UpperChars[i] = c]
    ELSE c

\* str.lower()
Lower(s) == [i \in 1..Len(s) |-> LowerChar(s[i])]

\* str.replace(from, to) for one-character from and to
Replace(s, from, to) == [i \in 1..Len(s) |-> IF s[i] = from THEN to ELSE s[i]]

\* the Python test  needle in hay  on two str
Contains(needle, hay) ==
    \E i \in 0..(Len(hay) - Len(needle)) :
        SubSeq(hay, i + 1, i + Len(needle)) = needle

\* dict.get(key, default)
DictGet(d, key, default) == IF key \in DOMAIN d THEN d[key] ELSE default

\* a dict display {k1: v1, k2: v2, ...}: a repeated key keeps its last value
DictOf(items) ==
    [k \in {items[i][1] : i \in 1..Len(items)} |->
        items[CHOOSE i \in 1..Len(items) :
                /\ items[i][1] = k
                /\ \A j \in 1..Len(items) : items[j][1] = k => j <= i][2]]

Digits == <<"0","1","2","3","4","5","6","7","8","9">>

IsDigits(s) == Len(s) > 0 /\ \A i \in 1..Len(s) : \E d \in 1..10 : Digits[d] = s[i]

DigitVal(c) == (CHOOSE d \in 1..10 : Digits[d] = c) - 1

RECURSIVE IntOfDigits(_)
IntOfDigits(s) ==
    IF Len(s) = 0 THEN 0
    ELSE 10 * IntOfDigits(SubSeq(s, 1, Len(s) - 1)) + DigitVal(s[Len(s)])

\* floor(sqrt(n)) by bisection on lo*lo <= n < hi*hi
RECURSIVE IsqrtIn(_, _, _)
IsqrtIn(n, lo, hi) ==
    IF hi - lo <= 1 THEN lo
    ELSE LET mid == (lo + hi) \div 2
         IN  IF mid * mid <= n THEN IsqrtIn(n, mid, hi) ELSE IsqrtIn(n, lo, mid)

Isqrt(n) == IsqrtIn(n, 0, 46341)

\* (dy**2 + dx**2)**0.5 on offsets in 0.0001 degree; offsets beyond 2 degrees
\* are squared in units of 0.01 degree so that the sum stays below 2^31
Hypot(dy, dx) ==
    IF Abs(dy) > 20000 \/ Abs(dx) > 20000
    THEN 100 * Isqrt((Abs(dy) \div 100) * (Abs(dy) \div 100)
                     + (Abs(dx) \div 100) * (Abs(dx) \div 100))
    ELSE Isqrt(dy * dy + dx * dx)

\* geopy.distance.geodesic(a, b).kilometers for points (lat, lon), in 0.0001 km,
\* on the plane with 111 km to the degree
geodesic(a, b) == Hypot(a[1] - b[1], a[2] - b[2]) * 111

\* ------------------------------------------------------------------------
\* GarudaRealClassifier
\* ------------------------------------------------------------------------

DelhiFallback == <<286139, 772090>>

major_cities == <<
    [name |-> <<"N","e","w"," ","D","e","l","h","i">>, coords |-> <<286139, 772090>>, importance |-> 10],
    [name |-> <<"M","u","m","b","a","i">>,    coords |-> <<190760, 728777>>, importance |-> 9],
    [name |-> <<"K","o","l","k","a","t","a">>,   coords |-> <<225726, 883639>>, importance |-> 8],
    [name |-> <<"C","h","e","n","n","a","i">>,   coords |-> <<130827, 802707>>, importance |-> 8],
    [name |-> <<"B","a","n","g","a","l","o","r","e">>, coords |-> <<129716, 775946>>, importance |-> 8] >>

border_areas == <<
    [name |-> <<"L","O","C"," ","K","a","s","h","m","i","r">>,            coords |-> <<340837, 747973>>, threat_level |-> 10],
    [name |-> <<"P","a","k","i","s","t","a","n"," ","B","o","r","d","e","r"," ","P","u","n","j","a","b">>, coords |-> <<316340, 748723>>, threat_level |-> 9],
    [name |-> <<"C","h","i","n","a"," ","B","o","r","d","e","r"," ","L","a","d","a","k","h">>,    coords |-> <<341526, 775771>>, threat_level |-> 10],
    [name |-> <<"B","a","n","g","l","a","d","e","s","h"," ","B","o","r","d","e","r">>,      coords |-> <<246332, 887789>>, threat_level |-> 7] >>

military_zones == <<
    [name |-> <<"S","i","a","c","h","e","n"," ","G","l","a","c","i","e","r">>, coords |-> <<354219, 770689>>, sensitivity |-> 10],
    [name |-> <<"K","a","r","g","i","l"," ","S","e","c","t","o","r">>,   coords |-> <<345539, 761250>>, sensitivity |-> 9] >>

base_scores == DictOf(<<
    <<"Nuclear Power Plant",    [score |-> 95, factors |-> <<<<"n","u","c","l","e","a","r","_","f","a","c","i","l","i","t","y">>, <<"c","r","i","t","i","c","a","l","_","i","n","f","r","a","s","t","r","u","c","t","u","r","e">>>>]>>,
    <<"Military Facility",      [score |-> 90, factors |-> <<<<"m","i","l","i","t","a","r","y","_","i","n","s","t","a","l","l","a","t","i","o","n">>>>]>>,
    <<"International Airport",  [score |-> 85, factors |-> <<<<"a","v","i","a","t","i","o","n","_","h","u","b">>, <<"i","n","t","e","r","n","a","t","i","o","n","a","l","_","c","o","n","n","e","c","t","i","v","i","t","y">>>>]>>,
    <<"Major Port",             [score |-> 80, factors |-> <<<<"m","a","r","i","t","i","m","e","_","g","a","t","e","w","a","y">>>>]>>,
    <<"Power Infrastructure",   [score |-> 70, factors |-> <<<<"p","o","w","e","r","_","g","r","i","d">>>>]>>,
    <<"Major Bridge",           [score |-> 65, factors |-> <<<<"t","r","a","n","s","p","o","r","t","a","t","i","o","n","_","l","i","n","k">>>>]>>,
    <<"Railway Hub",            [score |-> 60, factors |-> <<<<"r","a","i","l","_","c","o","n","n","e","c","t","i","v","i","t","y">>>>]>>,
    <<"Regional Airport",       [score |-> 55, factors |-> <<<<"r","e","g","i","o","n","a","l","_","a","v","i","a","t","i","o","n">>>>]>>,
    <<"Local Bridge",           [score |-> 30, factors |-> <<<<"l","o","c","a","l","_","t","r","a","n","s","p","o","r","t">>>>]>>,
    <<"Minor Railway",          [score |-> 25, factors |-> <<<<"l","o","c","a","l","_","r","a","i","l">>>>]>>,
    <<"Local Road",             [score |-> 20, factors |-> <<<<"l","o","c","a","l","_","a","c","c","e","s","s">>>>]>>,
    <<"Bridge",                 [score |-> 40, factors |-> <<<<"t","r","a","n","s","p","o","r","t","_","i","n","f","r","a","s","t","r","u","c","t","u","r","e">>>>]>>,
    <<"Airport",                [score |-> 70, factors |-> <<<<"a","v","i","a","t","i","o","n","_","i","n","f","r","a","s","t","r","u","c","t","u","r","e">>>>]>>,
    <<"Railway Infrastructure", [score |-> 50, factors |-> <<<<"r","a","i","l","_","i","n","f","r","a","s","t","r","u","c","t","u","r","e">>>>]>>,
    <<"Power Infrastructure",   [score |-> 65, factors |-> <<<<"e","n","e","r","g","y","_","i","n","f","r","a","s","t","r","u","c","t","u","r","e">>>>]>> >>)

\* if osm_tags:  -- None and the empty dict are false
Truthy(osm_tags) == osm_tags # None /\ DOMAIN osm_tags # {}

_enhance_with_osm_tags(type_data, osm_tags) ==
    LET hw == IF "highway" \in DOMAIN osm_tags THEN osm_tags["highway"] ELSE "-"
        major     == "highway" \in DOMAIN osm_tags /\ hw \in {"trunk", "primary"}
        secondary == "highway" \in DOMAIN osm_tags /\ ~major /\ hw \in {"secondary", "tertiary"}
        mainline  == /\ "railway" \in DOMAIN osm_tags
                     /\ osm_tags["railway"] = "rail"
                     /\ "usage" \in DOMAIN osm_tags /\ osm_tags["usage"] = "main"
        \* osm_tags.get('iata', osm_tags.get('icao')); "" stands for a missing code
        iata_code == DictGet(osm_tags, "iata", DictGet(osm_tags, "icao", ""))
        airport   == /\ "aeroway" \in DOMAIN osm_tags
                     /\ osm_tags["aeroway"] = "aerodrome"
                     /\ iata_code # ""
        score1    == type_data.score + (IF major THEN 20 ELSE IF secondary THEN 10 ELSE 0)
        factors1  == type_data.factors
                       \o (IF major THEN <<<<"m","a","j","o","r","_","h","i","g","h","w","a","y","_","b","r","i","d","g","e">>>>
                           ELSE IF secondary THEN <<<<"s","e","c","o","n","d","a","r","y","_","r","o","a","d","_","b","r","i","d","g","e">>>> ELSE <<>>)
        score2    == score1 + (IF mainline THEN 15 ELSE 0)
        factors2  == factors1 \o (IF mainline THEN <<<<"m","a","i","n","l","i","n","e","_","r","a","i","l","w","a","y">>>> ELSE <<>>)
        score3    == score2 + (IF airport THEN 25 ELSE 0)
        factors3  == factors2 \o (IF airport THEN <<<<"c","o","m","m","e","r","c","i","a","l","_","a","i","r","p","o","r","t">>>> ELSE <<>>)
    IN  [score |-> score3, factors |-> factors3]

_get_real_type_scores(asset_type, osm_tags) ==
    LET type_data0 == DictGet(base_scores, asset_type,
                              [score |-> 30, factors |-> <<<<"u","n","c","l","a","s","s","i","f","i","e","d">>>>])
        type_data  == IF Truthy(osm_tags)
                      THEN _enhance_with_osm_tags(type_data0, osm_tags)
                      ELSE type_data0
    IN  [base_score |-> type_data.score, factors |-> type_data.factors]

\* the loop over major_cities from city i on; max_score is in units of 1/500000
RECURSIVE GeoLoop(_, _, _, _)
GeoLoop(center_point, i, max_score, factors) ==
    IF i > Len(major_cities) THEN [score |-> max_score \div 500000, factors |-> factors]
    ELSE LET city     == major_cities[i]
             distance == geodesic(center_point, city.coords)
             tag      == Replace(Lower(city.name), " ", "_")
         IN  IF distance <= 500000
             THEN GeoLoop(center_point, i + 1,
                          Max2(max_score, city.importance * (500000 - distance)),
                          Append(factors, <<"n","e","a","r","_">> \o tag))
             ELSE IF distance <= 1000000
             THEN GeoLoop(center_point, i + 1,
                          Max2(max_score, city.importance * 150000),
                          Append(factors, <<"r","e","g","i","o","n","a","l","_">> \o tag))
             ELSE GeoLoop(center_point, i + 1, max_score, factors)

\* variant: the loop misses the first city of the list
_calculate_geographic_importance_skip_first(center_point) == GeoLoop(center_point, 2, 0, <<>>)

_calculate_geographic_importance(center_point) == GeoLoop(center_point, 1, 0, <<>>)

\* the loop over border_areas from area i on; max_score is in units of 1/250000
RECURSIVE BorderLoop(_, _, _, _)
BorderLoop(center_point, i, max_score, factors) ==
    IF i > Len(border_areas) THEN [score |-> max_score \div 250000, factors |-> factors]
    ELSE LET border   == border_areas[i]
             distance == geodesic(center_point, border.coords)
             tag      == Replace(Lower(border.name), " ", "_")
         IN  IF distance <= 250000
             THEN BorderLoop(center_point, i + 1,
                             Max2(max_score, border.threat_level * (250000 - distance)),
                             Append(factors, <<"b","o","r","d","e","r","_","p","r","o","x","i","m","i","t","y","_">> \o tag))
             ELSE IF distance <= 500000
             THEN BorderLoop(center_point, i + 1,
                             Max2(max_score, border.threat_level * 125000),
                             factors)
             ELSE BorderLoop(center_point, i + 1, max_score, factors)

_analyze_border_proximity(center_point) == BorderLoop(center_point, 1, 0, <<>>)

critical_indicators == <<
    [indicator |-> <<"i","n","t","e","r","n","a","t","i","o","n","a","l">>,    points |-> 20],
    [indicator |-> <<"n","a","t","i","o","n","a","l"," ","h","i","g","h","w","a","y">>, points |-> 25],
    [indicator |-> <<"e","x","p","r","e","s","s","w","a","y">>,       points |-> 20],
    [indicator |-> <<"m","e","t","r","o">>,            points |-> 15],
    [indicator |-> <<"c","e","n","t","r","a","l">>,          points |-> 15],
    [indicator |-> <<"m","a","i","n">>,             points |-> 10] >>

RECURSIVE IndicatorLoop(_, _, _, _)
IndicatorLoop(name_lower, i, score, factors) ==
    IF i > Len(critical_indicators) THEN [score |-> score, factors |-> factors]
    ELSE LET ci == critical_indicators[i]
         IN  IF Contains(ci.indicator, name_lower)
             THEN IndicatorLoop(name_lower, i + 1, score + ci.points,
                                Append(factors, <<"c","r","i","t","i","c","a","l","_">> \o Replace(ci.indicator, " ", "_")))
             ELSE IndicatorLoop(name_lower, i + 1, score, factors)

\* asset_name is a str here: None has no lower() (see Raises)
_assess_infrastructure_criticality(asset_name, asset_type, center_point) ==
    IndicatorLoop(Lower(asset_name.str), 1, 0, <<>>)

\* polygon.area * 111320 * 111320 in whole square metres, the area being in
\* 1e-10 square degree: 111320 * 111320 / 1e10 = 1.2392
AreaSqM(area) == (area \div 10000) * 12392 + ((area % 10000) * 12392) \div 10000

_estimate_asset_importance(asset_polygon, osm_tags) ==
    LET area   == IF hasattr(asset_polygon, "area") THEN AreaSqM(asset_polygon.area) ELSE 0
        large  == hasattr(asset_polygon, "area") /\ area > 1000000
        medium == hasattr(asset_polygon, "area") /\ ~large /\ area > 100000
        parsed == Truthy(osm_tags) /\ "lanes" \in DOMAIN osm_tags /\ IsDigits(osm_tags["lanes"])
        lanes  == IF parsed THEN IntOfDigits(osm_tags["lanes"]) ELSE 0
        major  == parsed /\ lanes >= 6
        mid    == parsed /\ ~major /\ lanes >= 4
    IN  [score   |-> (IF large THEN 15 ELSE IF medium THEN 10 ELSE 0)
                     + (IF major THEN 15 ELSE IF mid THEN 10 ELSE 0),
         factors |-> (IF large THEN <<<<"l","a","r","g","e","_","i","n","f","r","a","s","t","r","u","c","t","u","r","e">>>>
                      ELSE IF medium THEN <<<<"m","e","d","i","u","m","_","i","n","f","r","a","s","t","r","u","c","t","u","r","e">>>> ELSE <<>>)
                     \o (IF major THEN <<<<"m","a","j","o","r","_","c","a","p","a","c","i","t","y">>>>
                         ELSE IF mid THEN <<<<"m","e","d","i","u","m","_","c","a","p","a","c","i","t","y">>>> ELSE <<>>)]

\* variant: the HIGH threshold is exclusive
_calculate_final_priority_exclusive(classification_score) ==
    IF classification_score > 80 THEN "HIGH"
    ELSE IF classification_score >= 50 THEN "MEDIUM"
    ELSE "LOW"

_calculate_final_priority(classification_score) ==
    IF classification_score >= 80 THEN "HIGH"
    ELSE IF classification_score >= 50 THEN "MEDIUM"
    ELSE "LOW"

high_threat_factors == <<<<"b","o","r","d","e","r","_","p","r","o","x","i","m","i","t","y">>, <<"m","i","l","i","t","a","r","y">>, <<"n","u","c","l","e","a","r">>, <<"i","n","t","e","r","n","a","t","i","o","n","a","l">>>>

\* sum(10 for factor in threat_factors if any(htf in factor ...))
RECURSIVE ThreatFactorScore(_)
ThreatFactorScore(threat_factors) ==
    IF Len(threat_factors) = 0 THEN 0
    ELSE (IF \E h \in 1..Len(high_threat_factors) :
                Contains(high_threat_factors[h], Head(threat_factors))
          THEN 10 ELSE 0)
         + ThreatFactorScore(Tail(threat_factors))

\* variant: the HIGH threshold is exclusive
_calculate_threat_level_exclusive(classification_score, threat_factors) ==
    LET total_threat == 7 * classification_score + 10 * ThreatFactorScore(threat_factors)
    IN  IF total_threat > 700 THEN "HIGH"
        ELSE IF total_threat >= 400 THEN "MEDIUM"
        ELSE "LOW"

\* the comparisons are made on ten times the float total_threat
_calculate_threat_level(classification_score, threat_factors) ==
    LET total_threat == 7 * classification_score + 10 * ThreatFactorScore(threat_factors)
    IN  IF total_threat >= 700 THEN "HIGH"
        ELSE IF total_threat >= 400 THEN "MEDIUM"
        ELSE "LOW"

\* the exception raised inside the try block, or None when it completes:
\* asset_name.lower() of a name that is not a str
ClassifyError(asset_name, asset_type, asset_polygon, osm_tags) ==
    IF ~isinstance_str(asset_name)
    THEN [AttributeError |-> "'NoneType' object has no attribute 'lower'"]
    ELSE None

classify_asset_real(asset_name, asset_type, asset_polygon, osm_tags, now) ==
    LET center_point == IF hasattr(asset_polygon, "centroid")
                        THEN <<asset_polygon.centroid.y, asset_polygon.centroid.x>>
                        ELSE DelhiFallback
        type_scores  == _get_real_type_scores(asset_type, osm_tags)
        geo_score    == _calculate_geographic_importance(center_point)
        border_score == _analyze_border_proximity(center_point)
        infra_score  == _assess_infrastructure_criticality(asset_name, asset_type, center_point)
        size_score   == _estimate_asset_importance(asset_polygon, osm_tags)
        classification_score == type_scores.base_score + geo_score.score
                                + border_score.score + infra_score.score + size_score.score
        threat_factors == type_scores.factors \o geo_score.factors \o border_score.factors
                          \o infra_score.factors \o size_score.factors
        e == ClassifyError(asset_name, asset_type, asset_polygon, osm_tags)
    IN  IF e # None
        THEN [priority |-> "LOW", threat_level |-> "LOW",
              classification_score |-> 0, error |-> e.AttributeError]
        ELSE [priority |-> _calculate_final_priority(classification_score),
              threat_level |-> _calculate_threat_level(classification_score, threat_factors),
              classification_score |-> classification_score,
              threat_factors |-> threat_factors,
              analysis |-> [geographic_importance |-> geo_score,
                            border_proximity |-> border_score,
                            infrastructure_criticality |-> infra_score,
                            size_assessment |-> size_score],
              coordinates |-> center_point,
              classified_at |-> now]

\* ------------------------------------------------------------------------
\* GarudaMLEngine: feature extraction and target simulation
\*
\* A feature vector holds latitude, longitude and border_proximity in 0.0001
\* degree, distance_to_capital in 0.0001 km, area_sq_m in square metres and
\* the two estimates rounded down to whole numbers.  Growth rates and threat
\* scores are in units of 0.0001.
\* ------------------------------------------------------------------------

Units == {"growth", "threat", "anomaly"}

\* estimate_population_density: city_density * max(0.1, 1 - distance / 500)
population_cities == <<
    <<286139, 772090, 30000>>,
    <<190760, 728777, 20000>>,
    <<225726, 883639, 15000>>,
    <<130827, 802707, 12000>>,
    <<129716, 775946, 11000>> >>

RECURSIVE DensityLoop(_, _, _, _)
DensityLoop(lat, lon, i, density) ==
    IF i > Len(population_cities) THEN density
    ELSE LET city     == population_cities[i]
             distance == Hypot(lat - city[1], lon - city[2]) * 111
             city_influence == (city[3] * Max2(1000, 10000 - distance \div 500)) \div 10000
         IN  DensityLoop(lat, lon, i + 1, Max2(density, city_influence))

estimate_population_density(lat, lon) == DensityLoop(lat, lon, 1, 100)

\* estimate_economic_activity: activity_score * max(0.1, 1 - distance / 300)
economic_centers == <<
    <<286139, 772090, 100>>,
    <<190760, 728777, 95>>,
    <<129716, 775946, 85>>,
    <<130827, 802707, 75>> >>

RECURSIVE ActivityLoop(_, _, _, _)
ActivityLoop(lat, lon, i, max_activity) ==
    IF i > Len(economic_centers) THEN max_activity
    ELSE LET center   == economic_centers[i]
             distance == Hypot(lat - center[1], lon - center[2]) * 111
             activity == (center[3] * Max2(1000, 10000 - distance \div 300)) \div 10000
         IN  ActivityLoop(lat, lon, i + 1, Max2(max_activity, activity))

estimate_economic_activity(lat, lon) == ActivityLoop(lat, lon, 1, 10)

get_default_features ==
    [latitude |-> 286139, longitude |-> 772090, area_sq_m |-> 1000,
     priority_score |-> 1, type_score |-> 1,
     distance_to_capital |-> 100 * 10000, border_proximity |-> 200 * 10000,
     population_density |-> 1000, economic_activity |-> 30]

priority_map == [HIGH |-> 3, MEDIUM |-> 2, LOW |-> 1]

type_map == DictOf(<<
    <<"Bridge", 1>>, <<"Airport", 2>>, <<"Power Infrastructure", 3>>,
    <<"Railway Infrastructure", 4>>, <<"Military Facility", 5>>,
    <<"Border Infrastructure", 6>> >>)

\* the exception raised inside the try block of extract_asset_features:
\* asset.get of an asset that is no dict, .area of a geometry without area
ExtractError(asset) ==
    \/ asset = None
    \/ /\ "polygon" \in DOMAIN asset
       /\ hasattr(asset["polygon"], "centroid")
       /\ ~hasattr(asset["polygon"], "area")

\* variant: border_proximity is converted to kilometres like distance_to_delhi
ExtractedFeatures_kilometres(asset) ==
    LET polygon  == DictGet(asset, "polygon", None)
        has      == hasattr(polygon, "centroid")
        lat      == IF has THEN polygon.centroid.y ELSE 286139
        lon      == IF has THEN polygon.centroid.x ELSE 772090
        area     == IF has THEN AreaSqM(polygon.area) ELSE 1000
        priority_score == DictGet(priority_map, DictGet(asset, "priority", "LOW"), 1)
        type_score     == DictGet(type_map, DictGet(asset, "type", "Unknown"), 0)
        distance_to_delhi == Hypot(lat - 286139, lon - 772090) * 111
        border_proximity  == Min2(Min2(Abs(lat - 350000), Abs(lat - 240000)),
                                  Min2(Abs(lon - 680000), Abs(lon - 970000))) * 111
    IN  [latitude |-> lat, longitude |-> lon, area_sq_m |-> area,
         priority_score |-> priority_score, type_score |-> type_score,
         distance_to_capital |-> distance_to_delhi,
         border_proximity |-> border_proximity,
         population_density |-> estimate_population_density(lat, lon),
         economic_activity |-> estimate_economic_activity(lat, lon)]

\* the body of the try block
ExtractedFeatures(asset) ==
    LET polygon  == DictGet(asset, "polygon", None)
        has      == hasattr(polygon, "centroid")
        lat      == IF has THEN polygon.centroid.y ELSE 286139
        lon      == IF has THEN polygon.centroid.x ELSE 772090
        area     == IF has THEN AreaSqM(polygon.area) ELSE 1000
        priority_score == DictGet(priority_map, DictGet(asset, "priority", "LOW"), 1)
        type_score     == DictGet(type_map, DictGet(asset, "type", "Unknown"), 0)
        distance_to_delhi == Hypot(lat - 286139, lon - 772090) * 111
        border_proximity  == Min2(Min2(Abs(lat - 350000), Abs(lat - 240000)),
                                  Min2(Abs(lon - 680000), Abs(lon - 970000)))
    IN  [latitude |-> lat, longitude |-> lon, area_sq_m |-> area,
         priority_score |-> priority_score, type_score |-> type_score,
         distance_to_capital |-> distance_to_delhi,
         border_proximity |-> border_proximity,
         population_density |-> estimate_population_density(lat, lon),
         economic_activity |-> estimate_economic_activity(lat, lon)]

\* variant: only a missing asset is caught, any other exception propagates
extract_asset_features_uncaught(asset) ==
    IF asset = None THEN get_default_features
    ELSE IF ExtractError(asset) THEN [raised |-> "AttributeError"]
    ELSE ExtractedFeatures(asset)

extract_asset_features(asset) ==
    IF ExtractError(asset) THEN get_default_features ELSE ExtractedFeatures(asset)

base_rates == DictOf(<<
    <<"Bridge", 200>>, <<"Airport", 500>>, <<"Power Infrastructure", 300>>,
    <<"Railway Infrastructure", 400>>, <<"Military Facility", 100>>,
    <<"Border Infrastructure", 250>> >>)

\* asset.get of an asset that is no dict raises in both simulate functions
SimulateError(asset) == asset = None

\* noise is the value drawn from np.random.normal(0, 0.005)
simulate_growth_rate(asset, noise) ==
    LET base_rate0 == DictGet(base_rates, DictGet(asset, "type", "Unknown"), 200)
        priority   == DictGet(asset, "priority", "LOW")
        base_rate  == IF priority = "HIGH" THEN (base_rate0 * 15) \div 10
                      ELSE IF priority = "MEDIUM" THEN (base_rate0 * 12) \div 10
                      ELSE base_rate0
    IN  Max2(0, base_rate + noise)

\* variant: the noisy score is returned as it is
simulate_threat_score_unclamped(asset, features, noise) ==
    LET priority == DictGet(asset, "priority", "LOW")
        threat_score == 1000
                        + (IF features.border_proximity < 50 * 10000 THEN 3000 ELSE 0)
                        + (IF priority = "HIGH" THEN 4000
                           ELSE IF priority = "MEDIUM" THEN 2000 ELSE 0)
                        + features.economic_activity * 10
    IN  threat_score + noise

\* noise is the value drawn from np.random.normal(0, 0.05)
simulate_threat_score(asset, features, noise) ==
    LET priority == DictGet(asset, "priority", "LOW")
        threat_score == 1000
                        + (IF features.border_proximity < 50 * 10000 THEN 3000 ELSE 0)
                        + (IF priority = "HIGH" THEN 4000
                           ELSE IF priority = "MEDIUM" THEN 2000 ELSE 0)
                        + features.economic_activity * 10
    IN  Max2(0, Min2(10000, threat_score + noise))

\* ------------------------------------------------------------------------
\* GarudaMLEngine: training
\*
\* The engine is the record of the attributes of self together with the
\* module flag SKLEARN_AVAILABLE.  assets_data is [items |-> the assets of the
\* dict in order], or None for an argument without items().  Metrics are in
\* units of 0.01.
\* ------------------------------------------------------------------------

NewEngine(sklearn_available) ==
    [SKLEARN_AVAILABLE |-> sklearn_available,
     fitted |-> {}, scalers |-> {},
     feature_df |-> << >>, growth_df |-> << >>, threat_df |-> << >>,
     prepared |-> FALSE]

\* the loop of prepare_training_data from asset i on; an asset whose
\* processing raises is skipped
RECURSIVE PrepareLoop(_, _, _, _)
PrepareLoop(items, noises, i, acc) ==
    IF i > Len(items) THEN acc
    ELSE LET asset    == items[i]
             features == extract_asset_features(asset)
         IN  IF SimulateError(asset)
             THEN PrepareLoop(items, noises, i + 1, acc)
             ELSE PrepareLoop(items, noises, i + 1,
                    [training_features |-> Append(acc.training_features, features),
                     growth_targets |-> Append(acc.growth_targets,
                                               simulate_growth_rate(asset, noises[i].growth)),
                     threat_targets |-> Append(acc.threat_targets,
                                               simulate_threat_score(asset, features, noises[i].threat))])

\* assets_data.items() of an argument that is no dict raises, outside the inner try
PrepareError(assets_data) == ~hasattr(assets_data, "items")

\* variant: the features of an asset are appended before its targets are simulated
prepare_training_data_features_first(assets_data, noises) ==
    LET data == PrepareLoop(assets_data.items, noises, 1,
                    [training_features |-> << >>, growth_targets |-> << >>,
                     threat_targets |-> << >>])
    IN  [data EXCEPT !.training_features =
            [i \in 1..Len(assets_data.items) |-> extract_asset_features(assets_data.items[i])]]

prepare_training_data(assets_data, noises) ==
    PrepareLoop(assets_data.items, noises, 1,
                [training_features |-> << >>, growth_targets |-> << >>, threat_targets |-> << >>])

\* train_growth_predictor and train_threat_predictor on n samples: what is
\* returned and what is stored.  fit_transform raises on no sample and
\* train_test_split on a single one; joblib.dump raises when persist_fails.
TrainRegressor(sklearn_available, mock_metrics, n, persist_fails, measured) ==
    IF ~sklearn_available
    THEN [metrics |-> mock_metrics, fit |-> FALSE, scaler |-> FALSE]
    ELSE IF n < 2
    THEN [metrics |-> [mse |-> 99900, r2 |-> 0], fit |-> FALSE, scaler |-> FALSE]
    ELSE IF persist_fails
    THEN [metrics |-> [mse |-> 99900, r2 |-> 0], fit |-> TRUE, scaler |-> TRUE]
    ELSE [metrics |-> measured, fit |-> TRUE, scaler |-> TRUE]

train_growth_predictor(sklearn_available, n, persist_fails, measured) ==
    TrainRegressor(sklearn_available, [mse |-> 1, r2 |-> 85], n, persist_fails, measured)

train_threat_predictor(sklearn_available, n, persist_fails, measured) ==
    TrainRegressor(sklearn_available, [mse |-> 2, r2 |-> 78], n, persist_fails, measured)

\* variant: the detector splits its samples as the regressors do and fails
\* on a single sample with them
train_anomaly_detector_needs_split(sklearn_available, n, persist_fails, flagged) ==
    IF ~sklearn_available
    THEN [metrics |-> [anomaly_rate |-> 10], fit |-> FALSE, scaler |-> FALSE]
    ELSE IF n < 2
    THEN [metrics |-> [anomaly_rate |-> 0], fit |-> FALSE, scaler |-> FALSE]
    ELSE IF persist_fails
    THEN [metrics |-> [anomaly_rate |-> 0], fit |-> TRUE, scaler |-> TRUE]
    ELSE [metrics |-> [anomaly_rate |-> (100 * Min2(flagged, n)) \div n],
          fit |-> TRUE, scaler |-> TRUE]

\* train_anomaly_detector: fit_transform raises on no sample; the rate is the
\* share of the n samples the fitted detector flags
train_anomaly_detector(sklearn_available, n, persist_fails, flagged) ==
    IF ~sklearn_available
    THEN [metrics |-> [anomaly_rate |-> 10], fit |-> FALSE, scaler |-> FALSE]
    ELSE IF n < 1
    THEN [metrics |-> [anomaly_rate |-> 0], fit |-> FALSE, scaler |-> FALSE]
    ELSE IF persist_fails
    THEN [metrics |-> [anomaly_rate |-> 0], fit |-> TRUE, scaler |-> TRUE]
    ELSE [metrics |-> [anomaly_rate |-> (100 * Min2(flagged, n)) \div n],
          fit |-> TRUE, scaler |-> TRUE]

\* variant: the except clause reports the samples of the preparation before
train_all_models_error_stale_count(self, assets_data, now) ==
    [engine |-> self,
     result |-> [error |-> "'NoneType' object has no attribute 'items'",
                 training_completed |-> now,
                 samples_trained |-> Len(self.feature_df)],
     attempted |-> << >>]

\* the except clause of train_all_models
train_all_models_error(self, assets_data, now) ==
    [engine |-> self,
     result |-> [error |-> "'NoneType' object has no attribute 'items'",
                 training_completed |-> now,
                 samples_trained |-> 0],
     attempted |-> << >>]

\* the engine after the call and the value returned; env gives what the
\* environment decides: the noise drawn for each asset, the units whose
\* joblib.dump fails, the metrics measured on the held-out split and the
\* number of samples the detector flags; attempted lists the units in the
\* order in which their training was started
train_all_models(self, assets_data, env, now) ==
    IF PrepareError(assets_data) THEN train_all_models_error(self, assets_data, now)
    ELSE
    LET data    == prepare_training_data(assets_data, env.noises)
        n       == Len(data.training_features)
        growth  == train_growth_predictor(self.SKLEARN_AVAILABLE, n,
                                          "growth" \in env.persist_fails, env.measured)
        threat  == train_threat_predictor(self.SKLEARN_AVAILABLE, n,
                                          "threat" \in env.persist_fails, env.measured)
        anomaly == train_anomaly_detector(self.SKLEARN_AVAILABLE, n,
                                          "anomaly" \in env.persist_fails, env.flagged)
        done(u) == CASE u = "growth" -> growth
                     [] u = "threat" -> threat
                     [] u = "anomaly" -> anomaly
    IN  [engine |-> [self EXCEPT
                        !.feature_df = data.training_features,
                        !.growth_df  = data.growth_targets,
                        !.threat_df  = data.threat_targets,
                        !.prepared   = TRUE,
                        !.fitted     = @ \cup {u \in Units : done(u).fit},
                        !.scalers    = @ \cup {u \in Units : done(u).scaler}],
         result |-> [training_completed |-> now,
                     samples_trained |-> n,
                     growth_model |-> growth.metrics,
                     threat_model |-> threat.metrics,
                     anomaly_model |-> anomaly.metrics,
                     sklearn_available |-> self.SKLEARN_AVAILABLE],
         attempted |-> <<"growth", "threat", "anomaly">>]

\* ------------------------------------------------------------------------
\* GarudaMLEngine: prediction
\*
\* Anomaly scores are in units of 0.0001, confidences in units of 0.01.  env
\* gives what the environment decides during a call: the noise drawn by the
\* simulate function, the value the fitted model returns, the outcome of
\* np.random.random() > 0.9 and the score drawn for the mock detector.
\* ------------------------------------------------------------------------

categorize_growth(growth_rate) ==
    IF growth_rate >= 600 THEN "RAPID"
    ELSE IF growth_rate >= 300 THEN "MODERATE"
    ELSE IF growth_rate >= 100 THEN "SLOW"
    ELSE "STABLE"

categorize_threat(threat_score) ==
    IF threat_score >= 7000 THEN "HIGH"
    ELSE IF threat_score >= 4000 THEN "MEDIUM"
    ELSE "LOW"

categorize_anomaly(anomaly_score) ==
    IF anomaly_score < -5000 THEN "HIGH_ANOMALY"
    ELSE IF anomaly_score < -2000 THEN "MODERATE_ANOMALY"
    ELSE "NORMAL"

identify_risk_factors(features) ==
    (IF features.border_proximity < 50 * 10000 THEN <<"BORDER_PROXIMITY">> ELSE << >>)
    \o (IF features.priority_score >= 3 THEN <<"HIGH_VALUE_TARGET">> ELSE << >>)
    \o (IF features.population_density > 10000 THEN <<"HIGH_POPULATION_AREA">> ELSE << >>)
    \o (IF features.economic_activity > 50 THEN <<"ECONOMIC_IMPORTANCE">> ELSE << >>)

\* the unit predicts with its fitted model and stored scaler
RealPrediction(self, unit) == self.SKLEARN_AVAILABLE /\ unit \in self.scalers

\* the exception raised inside the try block of predict_growth_rate and
\* predict_threat_level: the simulate function on an asset that is no dict
PredictError(self, unit, asset) == ~RealPrediction(self, unit) /\ SimulateError(asset)

predict_growth_rate(self, asset, env, now) ==
    IF PredictError(self, "growth", asset)
    THEN [predicted_growth_rate |-> 200, growth_category |-> "MODERATE", confidence |-> 50]
    ELSE LET growth_rate == IF RealPrediction(self, "growth") THEN env.predicted
                            ELSE simulate_growth_rate(asset, env.noise)
         IN  [predicted_growth_rate |-> growth_rate,
              growth_category |-> categorize_growth(growth_rate),
              confidence |-> 85,
              prediction_date |-> now]

predict_threat_level(self, asset, env, now) ==
    IF PredictError(self, "threat", asset)
    THEN [predicted_threat_score |-> 3000, threat_level |-> "MEDIUM", confidence |-> 50]
    ELSE LET features == extract_asset_features(asset)
             threat_score == IF RealPrediction(self, "threat") THEN env.predicted
                             ELSE simulate_threat_score(asset, features, env.noise)
         IN  [predicted_threat_score |-> threat_score,
              threat_level |-> categorize_threat(threat_score),
              risk_factors |-> identify_risk_factors(features),
              confidence |-> 75,
              prediction_date |-> now]

\* no statement of the try block of detect_anomalies raises on a feature
\* vector of finite numbers, which extract_asset_features always returns
DetectError(self, asset) == FALSE

\* the fitted detector flags a sample iff its decision function is negative;
\* the mock detector flags it unless np.random.random() > 0.9
detect_anomalies(self, asset, env, now) ==
    IF DetectError(self, asset)
    THEN [is_anomaly |-> FALSE, anomaly_score |-> 0]
    ELSE LET anomaly_pred  == IF RealPrediction(self, "anomaly")
                              THEN (IF env.predicted < 0 THEN -1 ELSE 1)
                              ELSE (IF env.above THEN 1 ELSE -1)
             anomaly_score == IF RealPrediction(self, "anomaly") THEN env.predicted
                              ELSE env.noise
         IN  [is_anomaly |-> anomaly_pred = -1,
              anomaly_score |-> anomaly_score,
              anomaly_level |-> categorize_anomaly(anomaly_score),
              detection_date |-> now]

\* ------------------------------------------------------------------------
\* binary64 arithmetic of the growth scores
\* ------------------------------------------------------------------------

\* A float between 0 and 16 is <<hi, mid, lo>>, the number
\* (hi * Limb^2 + mid * Limb + lo) * 2^-56 with mid, lo < Limb.
Limb == 2^20

\* the binary64 value of a decimal literal given in units of 0.0001
Double(literal) ==
    CASE literal = 0 -> <<0, 0, 0>>
      [] literal = 1000 -> <<6553, 629145, 629146>>
      [] literal = 2000 -> <<13107, 209715, 209716>>
      [] literal = 2500 -> <<16384, 0, 0>>
      [] literal = 3000 -> <<19660, 838860, 838860>>
      [] literal = 3500 -> <<22937, 629145, 629144>>
      [] literal = 4000 -> <<26214, 419430, 419432>>
      [] literal = 5000 -> <<32768, 0, 0>>
      [] literal = 7000 -> <<45875, 209715, 209712>>
      [] literal = 8000 -> <<52428, 838860, 838864>>
      [] literal = 10000 -> <<65536, 0, 0>>

\* the limbs brought below Limb
Binary64Carry(x) ==
    LET mid == x[2] + x[3] \div Limb
    IN  <<x[1] + mid \div Limb, mid % Limb, x[3] % Limb>>

\* the unit in the last place of a number, in units of 2^-56: 53 significant bits
Binary64Ulp(x) ==
    IF x[1] >= 2^19 THEN 128
    ELSE IF x[1] >= 2^18 THEN 64
    ELSE IF x[1] >= 2^17 THEN 32
    ELSE IF x[1] >= 2^16 THEN 16
    ELSE IF x[1] >= 2^15 THEN 8
    ELSE IF x[1] >= 2^14 THEN 4
    ELSE IF x[1] >= 2^13 THEN 2
    ELSE 1

\* x + num / den (0 <= num < den) rounded to nearest, ties to even
Binary64Round(x, num, den) ==
    LET ulp  == Binary64Ulp(x)
        rest == x[3] % ulp
        up   == \/ 2 * (rest * den + num) > ulp * den
                \/ 2 * (rest * den + num) = ulp * den /\ (x[3] \div ulp) % 2 = 1
    IN  IF up THEN Binary64Carry(<<x[1], x[2], x[3] - rest + ulp>>)
        ELSE <<x[1], x[2], x[3] - rest>>

\* a + b
Binary64Add(a, b) ==
    Binary64Round(Binary64Carry(<<a[1] + b[1], a[2] + b[2], a[3] + b[3]>>), 0, 1)

\* x / n for an integer n from 1 to 1000
Binary64Div(x, n) ==
    LET mid == (x[1] % n) * Limb + x[2]
        lo  == (mid % n) * Limb + x[3]
    IN  Binary64Round(<<x[1] \div n, mid \div n, lo \div n>>, lo % n, n)

\* a > b
Binary64Greater(a, b) ==
    \/ a[1] > b[1]
    \/ a[1] = b[1] /\ a[2] > b[2]
    \/ a[1] = b[1] /\ a[2] = b[2] /\ a[3] > b[3]

\* a float of at most 1 in units of 0.0001, to the nearest
Decimal4(x) ==
    (10000 * x[1] + ((x[2] \div 1024) * 10000) \div 1024 + 32768) \div 65536

\* the floats seq[from], seq[from + step], ... up to seq[to] added to start
RECURSIVE Binary64Sum(_, _, _, _, _)
Binary64Sum(start, seq, from, step, to) ==
    IF from > to THEN start
    ELSE Binary64Sum(Binary64Add(start, seq[from]), seq, from + step, step, to)

\* numpy's sum of fewer than 128 floats: in order for fewer than 8, else
\* eight interleaved partial sums added in pairs, and the rest in order
PairwiseSum(seq) ==
    LET n == Len(seq)
        whole == n - (n % 8)
        r(j) == Binary64Sum(seq[j], seq, j + 8, 8, whole)
    IN  IF n < 8 THEN Binary64Sum(Double(0), seq, 1, 1, n)
        ELSE Binary64Sum(
                Binary64Add(
                    Binary64Add(Binary64Add(r(1), r(2)), Binary64Add(r(3), r(4))),
                    Binary64Add(Binary64Add(r(5), r(6)), Binary64Add(r(7), r(8)))),
                seq, whole + 1, 1, n)

\* ------------------------------------------------------------------------
\* GarudaGrowthPredictor
\*
\* An asset is a dict whose type and priority are str (sequences of
\* characters).  Growth scores, growth rates, confidences and asset counts of
\* a forecast are in units of 0.0001; a growth score and an average of growth scores are binary64 floats.
\* A dict that the code iterates in insertion order is the sequence of its
\* entries, each with its key.
\* ------------------------------------------------------------------------

\* an argument that is a number or None is [num |-> the number] or None
Num(x) == [num |-> x]

Numeric(v) == "num" \in DOMAIN v

\* variant: the first row takes 32 degrees itself
determine_region_inclusive(lat, lon) ==
    IF ~Numeric(lat) THEN <<"C","e","n","t","r","a","l","_","I","n","d","i","a">>
    ELSE IF lat.num >= 320000 THEN <<"N","o","r","t","h","_","K","a","s","h","m","i","r">>
    ELSE IF ~Numeric(lon) THEN <<"C","e","n","t","r","a","l","_","I","n","d","i","a">>
    ELSE IF lat.num > 280000 /\ lon.num < 770000 THEN <<"N","o","r","t","h","_","P","u","n","j","a","b">>
    ELSE IF lat.num > 280000 THEN <<"N","o","r","t","h","_","D","e","l","h","i","_","N","C","R">>
    ELSE IF lat.num > 230000 /\ lon.num < 730000 THEN <<"W","e","s","t","_","R","a","j","a","s","t","h","a","n">>
    ELSE IF lat.num > 230000 /\ lon.num < 800000 THEN <<"C","e","n","t","r","a","l","_","M","P","_","U","P">>
    ELSE IF lat.num > 200000 /\ lon.num > 800000 THEN <<"E","a","s","t","_","B","e","n","g","a","l">>
    ELSE IF lat.num > 150000 /\ lon.num > 770000 THEN <<"S","o","u","t","h","_","D","e","c","c","a","n">>
    ELSE IF lon.num < 750000 THEN <<"W","e","s","t","_","M","a","h","a","r","a","s","h","t","r","a">>
    ELSE <<"S","o","u","t","h","_","T","a","m","i","l","_","N","a","d","u">>

\* lat and lon in 0.0001 degree; a comparison with a value that is no number
\* raises and the except clause answers; every path that does not return at
\* the first row compares lon
determine_region(lat, lon) ==
    IF ~Numeric(lat) THEN <<"C","e","n","t","r","a","l","_","I","n","d","i","a">>
    ELSE IF lat.num > 320000 THEN <<"N","o","r","t","h","_","K","a","s","h","m","i","r">>
    ELSE IF ~Numeric(lon) THEN <<"C","e","n","t","r","a","l","_","I","n","d","i","a">>
    ELSE IF lat.num > 280000 /\ lon.num < 770000 THEN <<"N","o","r","t","h","_","P","u","n","j","a","b">>
    ELSE IF lat.num > 280000 THEN <<"N","o","r","t","h","_","D","e","l","h","i","_","N","C","R">>
    ELSE IF lat.num > 230000 /\ lon.num < 730000 THEN <<"W","e","s","t","_","R","a","j","a","s","t","h","a","n">>
    ELSE IF lat.num > 230000 /\ lon.num < 800000 THEN <<"C","e","n","t","r","a","l","_","M","P","_","U","P">>
    ELSE IF lat.num > 200000 /\ lon.num > 800000 THEN <<"E","a","s","t","_","B","e","n","g","a","l">>
    ELSE IF lat.num > 150000 /\ lon.num > 770000 THEN <<"S","o","u","t","h","_","D","e","c","c","a","n">>
    ELSE IF lon.num < 750000 THEN <<"W","e","s","t","_","M","a","h","a","r","a","s","h","t","r","a">>
    ELSE <<"S","o","u","t","h","_","T","a","m","i","l","_","N","a","d","u">>

type_growth_potential == DictOf(<<
    <<<<"A","i","r","p","o","r","t">>, 4000>>, <<<<"P","o","w","e","r"," ","I","n","f","r","a","s","t","r","u","c","t","u","r","e">>, 3000>>,
    <<<<"R","a","i","l","w","a","y"," ","I","n","f","r","a","s","t","r","u","c","t","u","r","e">>, 3500>>, <<<<"B","r","i","d","g","e">>, 2500>>,
    <<<<"M","i","l","i","t","a","r","y"," ","F","a","c","i","l","i","t","y">>, 1000>>, <<<<"B","o","r","d","e","r"," ","I","n","f","r","a","s","t","r","u","c","t","u","r","e">>, 2000>> >>)

regional_growth == DictOf(<<
    <<<<"N","o","r","t","h","_","D","e","l","h","i","_","N","C","R">>, 4000>>, <<<<"S","o","u","t","h","_","D","e","c","c","a","n">>, 3500>>,
    <<<<"W","e","s","t","_","M","a","h","a","r","a","s","h","t","r","a">>, 3000>>, <<<<"N","o","r","t","h","_","K","a","s","h","m","i","r">>, 1000>>,
    <<<<"E","a","s","t","_","B","e","n","g","a","l">>, 2500>> >>)

\* variant: the score is returned without min(1.0, score)
calculate_growth_score_unclamped(asset, region) ==
    LET priority == DictGet(asset, "priority", <<"L","O","W">>)
        base     == Double(5000)
        score1   == IF priority = <<"H","I","G","H">> THEN Binary64Add(base, Double(3000))
                    ELSE IF priority = <<"M","E","D","I","U","M">> THEN Binary64Add(base, Double(2000))
                    ELSE base
        score2   == Binary64Add(score1,
                        Double(DictGet(type_growth_potential,
                                       DictGet(asset, "type", <<"U","n","k","n","o","w","n">>), 2000)))
        score    == Binary64Add(score2, Double(DictGet(regional_growth, region, 2000)))
    IN  score

\* asset is a dict here, so that no statement of the try block raises; the
\* score is the float that the additions give
calculate_growth_score(asset, region) ==
    LET priority == DictGet(asset, "priority", <<"L","O","W">>)
        base     == Double(5000)
        score1   == IF priority = <<"H","I","G","H">> THEN Binary64Add(base, Double(3000))
                    ELSE IF priority = <<"M","E","D","I","U","M">> THEN Binary64Add(base, Double(2000))
                    ELSE base
        score2   == Binary64Add(score1,
                        Double(DictGet(type_growth_potential,
                                       DictGet(asset, "type", <<"U","n","k","n","o","w","n">>), 2000)))
        score    == Binary64Add(score2, Double(DictGet(regional_growth, region, 2000)))
    IN  IF Binary64Greater(score, Double(10000)) THEN Double(10000) ELSE score

\* np.mean of a non-empty list of floats whose sum is below 16
Mean(seq) == Binary64Div(PairwiseSum(seq), Len(seq))

determine_growth_trend(growth_indicators) ==
    IF growth_indicators = << >> THEN "STABLE"
    ELSE LET avg_growth == Mean(growth_indicators)
         IN  IF Binary64Greater(avg_growth, Double(7000)) THEN "RAPID_GROWTH"
             ELSE IF Binary64Greater(avg_growth, Double(5000)) THEN "MODERATE_GROWTH"
             ELSE IF Binary64Greater(avg_growth, Double(3000)) THEN "SLOW_GROWTH"
             ELSE "STABLE"

\* the multipliers in units of 0.01
regional_multipliers == DictOf(<<
    <<<<"N","o","r","t","h","_","D","e","l","h","i","_","N","C","R">>, 130>>, <<<<"S","o","u","t","h","_","D","e","c","c","a","n">>, 120>>,
    <<<<"W","e","s","t","_","M","a","h","a","r","a","s","h","t","r","a">>, 115>>, <<<<"C","e","n","t","r","a","l","_","M","P","_","U","P">>, 110>>,
    <<<<"N","o","r","t","h","_","K","a","s","h","m","i","r">>, 70>>, <<<<"E","a","s","t","_","B","e","n","g","a","l">>, 100>> >>)

predict_regional_growth(current_score, region) ==
    LET multiplier     == DictGet(regional_multipliers, region, 100)
        predicted_rate == (current_score * multiplier) \div 1000
    IN  Min2(2000, predicted_rate)

\* a + b in binary64 for the risk weights, in units of 0.00001: the sums
\* 0.2 + 0.4 and 0.4 + 0.2 are 0.6000000000000001, shown as 60001, to which
\* adding 0.2 gives 0.8; 0.7 + 0.2 is 0.8999999999999999, shown as 89999
Float64Add(a, b) ==
    IF {a, b} = {20000, 40000} THEN 60001
    ELSE IF a = 60001 /\ b = 20000 THEN 80000
    ELSE IF a = 70000 /\ b = 20000 THEN 89999
    ELSE a + b

border_regions == <<<<"N","o","r","t","h","_","K","a","s","h","m","i","r">>, <<"N","o","r","t","h","_","P","u","n","j","a","b">>, <<"E","a","s","t","_","B","e","n","g","a","l">>>>

\* data is a group of growth_analysis with count > 0, so that no statement
\* of the try block raises; risk_score is in units of 0.00001
assess_growth_risk(data, region) ==
    LET concentration == data.count > 10
        high_value    == 2 * data.high_priority > data.count
        border        == \E i \in 1..Len(border_regions) : border_regions[i] = region
        rapid         == data.growth_indicators # << >>
                         /\ Binary64Greater(Mean(data.growth_indicators), Double(8000))
        score1 == IF concentration THEN Float64Add(0, 20000) ELSE 0
        score2 == IF high_value THEN Float64Add(score1, 30000) ELSE score1
        score3 == IF border THEN Float64Add(score2, 40000) ELSE score2
        risk_score == IF rapid THEN Float64Add(score3, 20000) ELSE score3
    IN  [risk_factors |-> (IF concentration THEN <<"HIGH_CONCENTRATION">> ELSE << >>)
                          \o (IF high_value THEN <<"HIGH_VALUE_CONCENTRATION">> ELSE << >>)
                          \o (IF border THEN <<"BORDER_VULNERABILITY">> ELSE << >>)
                          \o (IF rapid THEN <<"RAPID_DEVELOPMENT">> ELSE << >>),
         risk_score |-> Min2(100000, risk_score),
         risk_level |-> IF risk_score > 60000 THEN "HIGH"
                        ELSE IF risk_score > 30000 THEN "MEDIUM" ELSE "LOW"]

NewPredictor == [growth_patterns |-> << >>, predictions |-> << >>]

\* the position of the entry with the key in a dict, 0 when the key is not in
KeyIndex(dict, key) ==
    IF \E i \in 1..Len(dict) : dict[i].key = key
    THEN CHOOSE i \in 1..Len(dict) : dict[i].key = key
    ELSE 0

NewGroup(key) ==
    [key |-> key, count |-> 0,
     high_priority |-> 0, medium_priority |-> 0, low_priority |-> 0,
     coordinates |-> << >>, growth_indicators |-> << >>]

\* priority.lower() raises on a priority that is no str, and the counter
\* f'{priority.lower()}_priority' is a KeyError unless it is one of the three
PriorityError(priority) ==
    \/ priority = None
    \/ Lower(priority) \notin {<<"h","i","g","h">>, <<"m","e","d","i","u","m">>, <<"l","o","w">>}

\* the first loop of analyze_growth_patterns from asset i on; an exception
\* leaves the group as the statements before it made it
RECURSIVE AnalyzeLoop(_, _, _)
AnalyzeLoop(items, i, growth_analysis) ==
    IF i > Len(items) THEN growth_analysis
    ELSE IF items[i] = None THEN AnalyzeLoop(items, i + 1, growth_analysis)
    ELSE
    LET asset      == items[i]
        asset_type == DictGet(asset, "type", <<"U","n","k","n","o","w","n">>)
        priority   == DictGet(asset, "priority", <<"L","O","W">>)
        polygon    == DictGet(asset, "polygon", None)
        has        == hasattr(polygon, "centroid")
        lat        == IF has THEN polygon.centroid.y ELSE 286139
        lon        == IF has THEN polygon.centroid.x ELSE 772090
        region     == determine_region(Num(lat), Num(lon))
        key        == asset_type \o <<"_">> \o region
        known      == IF KeyIndex(growth_analysis, key) = 0
                      THEN Append(growth_analysis, NewGroup(key)) ELSE growth_analysis
        k          == KeyIndex(known, key)
        counted    == [known EXCEPT ![k].count = @ + 1]
        lowered    == Lower(priority)
        scored     == [counted EXCEPT
                         ![k].high_priority   = IF lowered = <<"h","i","g","h">> THEN @ + 1 ELSE @,
                         ![k].medium_priority = IF lowered = <<"m","e","d","i","u","m">> THEN @ + 1 ELSE @,
                         ![k].low_priority    = IF lowered = <<"l","o","w">> THEN @ + 1 ELSE @,
                         ![k].coordinates     = Append(@, <<lat, lon>>),
                         ![k].growth_indicators =
                             Append(@, calculate_growth_score(asset, region))]
    IN  AnalyzeLoop(items, i + 1, IF PriorityError(priority) THEN counted ELSE scored)

\* key.split('_', 1): the key up to its first underscore and what follows it
SplitKey(key) ==
    LET at == CHOOSE i \in 1..Len(key) :
                  key[i] = "_" /\ \A j \in 1..(i - 1) : key[j] # "_"
    IN  <<SubSeq(key, 1, at - 1), SubSeq(key, at + 1, Len(key))>>

\* the pattern that the second loop of analyze_growth_patterns makes of a group
PatternOf(data) ==
    LET asset_type == SplitKey(data.key)[1]
        region     == SplitKey(data.key)[2]
        avg_growth == IF data.growth_indicators # << >>
                      THEN Mean(data.growth_indicators) ELSE Double(5000)
    IN  [key |-> data.key,
         asset_type |-> asset_type,
         region |-> region,
         total_assets |-> data.count,
         priority_distribution |-> [HIGH |-> data.high_priority,
                                    MEDIUM |-> data.medium_priority,
                                    LOW |-> data.low_priority],
         average_growth_score |-> avg_growth,
         growth_trend |-> determine_growth_trend(data.growth_indicators),
         predicted_growth_rate |-> predict_regional_growth(Decimal4(avg_growth), region),
         risk_assessment |-> assess_growth_risk(data, region)]

\* assets_data.items() of an argument that is no dict raises, outside every try
AnalyzeError(assets_data) == ~hasattr(assets_data, "items")

\* variant: self.growth_patterns is not emptied, and the patterns of earlier
\* batches stay under the keys that the new batch does not have
analyze_growth_patterns_keeping(self, assets_data) ==
    IF AnalyzeError(assets_data) THEN [predictor |-> self, raised |-> "AttributeError"]
    ELSE LET growth_analysis == AnalyzeLoop(assets_data.items, 1, << >>)
             fresh == [i \in 1..Len(growth_analysis) |-> PatternOf(growth_analysis[i])]
             growth_patterns ==
                 SelectSeq(self.growth_patterns, LAMBDA p : KeyIndex(fresh, p.key) = 0)
                 \o fresh
         IN  [predictor |-> [self EXCEPT !.growth_patterns = growth_patterns],
              result |-> growth_patterns]

\* the predictor after the call and the value returned or the exception raised
analyze_growth_patterns(self, assets_data) ==
    IF AnalyzeError(assets_data) THEN [predictor |-> self, raised |-> "AttributeError"]
    ELSE LET growth_analysis == AnalyzeLoop(assets_data.items, 1, << >>)
             growth_patterns == [i \in 1..Len(growth_analysis) |-> PatternOf(growth_analysis[i])]
         IN  [predictor |-> [self EXCEPT !.growth_patterns = growth_patterns],
              result |-> growth_patterns]

\* 1 + 0.1 * sin(2 * pi * month / 12), in units of 0.0001
seasonal_factor(month) ==
    <<10500, 10866, 11000, 10866, 10500, 10000,
      9500, 9134, 9000, 9134, 9500, 10000>>[((month - 1) % 12) + 1]

\* current_count * (1 + monthly_rate * seasonal_factor), rounded down
GrowthStep(current_count, rate, month) ==
    current_count
    + ((((current_count * rate) \div 1200) \div 10) * seasonal_factor(month)) \div 100000

\* the loop over months from month on
RECURSIVE MonthLoop(_, _, _, _, _)
MonthLoop(rate, last_month, month, current_count, predicted_values) ==
    IF month > last_month THEN predicted_values
    ELSE LET grown == GrowthStep(current_count, rate, month)
         IN  MonthLoop(rate, last_month, month + 1, grown, Append(predicted_values, grown))

\* variant: the months are range(1, time_horizon_months)
PredictedCounts_short(pattern_data, time_horizon_months) ==
    MonthLoop(pattern_data.predicted_growth_rate, time_horizon_months.num - 1, 1,
              pattern_data.total_assets * 10000, << >>)

\* predicted_values of one pattern for months 1..time_horizon_months
PredictedCounts(pattern_data, time_horizon_months) ==
    MonthLoop(pattern_data.predicted_growth_rate, time_horizon_months.num, 1,
              pattern_data.total_assets * 10000, << >>)

calculate_prediction_confidence(pattern_data) ==
    LET priorities == pattern_data.priority_distribution
        total      == priorities.HIGH + priorities.MEDIUM + priorities.LOW
        largest    == Max2(priorities.HIGH, Max2(priorities.MEDIUM, priorities.LOW))
        confidence == 7000
                      + (IF pattern_data.total_assets > 10 THEN 2000
                         ELSE IF pattern_data.total_assets > 5 THEN 1000 ELSE 0)
                      + (IF total > 0 THEN ((total - largest) * 1000) \div total ELSE 0)
    IN  Min2(10000, confidence)

PredictionOf(pattern_data, time_horizon_months, now) ==
    [key |-> pattern_data.key,
     region |-> pattern_data.region,
     asset_type |-> pattern_data.asset_type,
     current_count |-> pattern_data.total_assets,
     predicted_counts |-> PredictedCounts(pattern_data, time_horizon_months),
     growth_rate_annual |-> pattern_data.predicted_growth_rate,
     confidence_level |-> calculate_prediction_confidence(pattern_data),
     risk_assessment |-> pattern_data.risk_assessment,
     prediction_date |-> now]

\* range(1, time_horizon_months + 1) raises for a horizon that is no integer,
\* inside the try of every pattern
HorizonError(time_horizon_months) == ~Numeric(time_horizon_months)

\* variant: the patterns are consumed by the forecast
generate_growth_predictions_consuming(self, time_horizon_months, now) ==
    LET predictions ==
            IF HorizonError(time_horizon_months) THEN << >>
            ELSE [i \in 1..Len(self.growth_patterns) |->
                    PredictionOf(self.growth_patterns[i], time_horizon_months, now)]
    IN  [predictor |-> [self EXCEPT !.predictions = predictions, !.growth_patterns = << >>],
         result |-> predictions]

\* the predictor after the call and the value returned
generate_growth_predictions(self, time_horizon_months, now) ==
    LET predictions ==
            IF HorizonError(time_horizon_months) THEN << >>
            ELSE [i \in 1..Len(self.growth_patterns) |->
                    PredictionOf(self.growth_patterns[i], time_horizon_months, now)]
    IN  [predictor |-> [self EXCEPT !.predictions = predictions],
         result |-> predictions]

\* 0.4 * predicted rate + 0.3 * average growth score + 0.3 * (count / 20),
\* in units of 0.000001
hotspot_score(pattern_data) ==
    40 * pattern_data.predicted_growth_rate
    + 30 * Decimal4(pattern_data.average_growth_score)
    + 15000 * pattern_data.total_assets

HotspotOf(pattern_data) ==
    [region |-> pattern_data.region,
     asset_type |-> pattern_data.asset_type,
     hotspot_score |-> hotspot_score(pattern_data),
     predicted_growth |-> pattern_data.predicted_growth_rate,
     current_assets |-> pattern_data.total_assets,
     risk_level |-> pattern_data.risk_assessment.risk_level]

\* hotspots.sort(key=hotspot_score, reverse=True): hotspots of equal score
\* keep their order
RECURSIVE SortHotspots(_)
SortHotspots(hotspots) ==
    IF hotspots = << >> THEN << >>
    ELSE LET best == CHOOSE i \in 1..Len(hotspots) :
                        /\ \A j \in 1..Len(hotspots) :
                              hotspots[j].hotspot_score <= hotspots[i].hotspot_score
                        /\ \A j \in 1..(i - 1) :
                              hotspots[j].hotspot_score < hotspots[i].hotspot_score
         IN  <<hotspots[best]>>
             \o SortHotspots(SubSeq(hotspots, 1, best - 1)
                             \o SubSeq(hotspots, best + 1, Len(hotspots)))

\* the value returned: hotspots[:10]
identify_growth_hotspots(self) ==
    LET hotspots == SortHotspots([i \in 1..Len(self.growth_patterns) |->
                                    HotspotOf(self.growth_patterns[i])])
    IN  SubSeq(hotspots, 1, Min2(10, Len(hotspots)))

\* ------------------------------------------------------------------------
\* Bounds and sample inputs
\* ------------------------------------------------------------------------

\* datetime.now() takes the values 0..MaxClock
MaxClock == 2

\* a shapely geometry with the given centroid (0.0001 degree) and area
Geometry(lat, lon, area) == [centroid |-> [y |-> lat, x |-> lon], area |-> area]

\* an asset_polygon without centroid and area
NoGeometry == None

\* a geometry of about 1000 square metres, north of a place by an offset
NorthOf(coords, offset) == Geometry(coords[1] + offset, coords[2], 807)

\* offsets north of New Delhi: 0 km, 5 km, 45 km, either side of 50 km, 60 km,
\* either side of 100 km
CityOffsets == {0, 450, 4054, 4504, 4505, 5405, 9009, 9010}

\* offsets north of a border area: 0 km, just inside 25 km, 30 km, either side of 50 km
BorderOffsets == {0, 2243, 2703, 4504, 4505}

RemotePoint == <<230000, 790000>>

Polygons ==
    {NoGeometry}
    \cup {NorthOf(major_cities[1].coords, d) : d \in CityOffsets}
    \cup {NorthOf(major_cities[3].coords, d) : d \in {0, 4054, 5405}}
    \cup {NorthOf(border_areas[1].coords, d) : d \in BorderOffsets}
    \cup {NorthOf(border_areas[i].coords, 0) : i \in 2..Len(border_areas)}
    \cup {NorthOf(military_zones[i].coords, 0) : i \in 1..Len(military_zones)}
    \cup {NorthOf(RemotePoint, 0),
          Geometry(RemotePoint[1], RemotePoint[2], 100000),
          Geometry(RemotePoint[1], RemotePoint[2], 1000000),
          Geometry(286139, 772090, 0),
          Geometry(286139, 772090, 1000000)}

Names == {Str(<<"T","e","s","t"," ","B","r","i","d","g","e">>), Str(<<"M","a","i","n"," ","B","r","i","d","g","e">>), Str(<<"C","e","n","t","r","a","l"," ","M","e","t","r","o"," ","I","n","t","e","r","n","a","t","i","o","n","a","l">>), None}

Types == {"Bridge", "Power Infrastructure", "Nuclear Power Plant", "Military Facility",
          "International Airport", "Local Road", "Warehouse"}

TagSets ==
    {None, EmptyDict,
     [highway |-> "primary"],
     [highway |-> "secondary"],
     [highway |-> "primary", lanes |-> <<"4">>],
     [highway |-> "primary", lanes |-> <<"6">>],
     [highway |-> "residential", lanes |-> <<"m","a","n","y">>],
     [railway |-> "rail", usage |-> "main"],
     [aeroway |-> "aerodrome", icao |-> "VIDP"]}

ClassifyArgs(names, types, polygons, tagsets) ==
    [asset_name : names, asset_type : types, asset_polygon : polygons, osm_tags : tagsets]

\* the calls made by the classifier's clients
ClassifierInputs ==
    ClassifyArgs({Str(<<"T","e","s","t"," ","B","r","i","d","g","e">>)}, Types,
                 {NorthOf(major_cities[1].coords, 0), NorthOf(major_cities[1].coords, 450),
                  NorthOf(RemotePoint, 0)},
                 TagSets)
    \cup ClassifyArgs({Str(<<"T","e","s","t"," ","B","r","i","d","g","e">>)}, {"Bridge"}, Polygons, {None, [highway |-> "primary"]})
    \cup ClassifyArgs(Names, {"Bridge", "International Airport"},
                      {NoGeometry, NorthOf(major_cities[1].coords, 0),
                       Geometry(286139, 772090, 1000000)},
                      {[highway |-> "primary"]})

\* the calls whose results are compared pairwise
PairInputs ==
    ClassifyArgs(Names \ {None}, {"Bridge"},
                 {NoGeometry, NorthOf(border_areas[1].coords, 0)},
                 {None, [highway |-> "primary"]})

\* the calls whose geographic sub-scores are compared pairwise
GeoPairInputs ==
    ClassifyArgs({Str(<<"T","e","s","t"," ","B","r","i","d","g","e">>)}, {"Bridge"},
                 {NorthOf(major_cities[1].coords, d) : d \in CityOffsets}
                 \cup {NorthOf(major_cities[3].coords, d) : d \in {0, 4054, 5405}},
                 {None})

\* the longest batch given to train_all_models
MaxBatch == 2

\* a key that the asset dict does not have
Absent == [absent |-> TRUE]

\* the asset dict with the keys that are not Absent ("" for priority and type)
AssetDict(polygon, priority, type) ==
    (IF polygon = Absent THEN EmptyDict ELSE [polygon |-> polygon])
    @@ (IF priority = "" THEN EmptyDict ELSE [priority |-> priority])
    @@ (IF type = "" THEN EmptyDict ELSE [type |-> type])

\* a geometry whose area cannot be read
NoAreaGeometry == [centroid |-> [y |-> 286139, x |-> 772090]]

ExtractPolygons ==
    {Absent, NoGeometry, NoAreaGeometry,
     Geometry(286139, 772090, 807), Geometry(286139, 772090, 100000),
     NorthOf(major_cities[1].coords, 4505), NorthOf(major_cities[2].coords, 0),
     NorthOf(border_areas[1].coords, 0), NorthOf(RemotePoint, 0)}

ExtractAssets ==
    {None}
    \cup {AssetDict(g, p, t) : g \in ExtractPolygons,
                               p \in {"HIGH", "MEDIUM", "URGENT", ""},
                               t \in {"Bridge", "Warehouse", ""}}

\* the assets whose feature vectors are compared pairwise
ExtractPairAssets ==
    {None}
    \cup {AssetDict(g, p, "Bridge") :
            g \in {Absent, NoGeometry, NoAreaGeometry, Geometry(286139, 772090, 807),
                   NorthOf(border_areas[1].coords, 0)},
            p \in {"LOW", "HIGH"}}

TrainAssets == {None, AssetDict(NorthOf(border_areas[1].coords, 0), "HIGH", "Airport")}

\* no asset, a well-formed asset and an asset whose geometry has no area
MixedAssets == TrainAssets \cup {AssetDict(NoAreaGeometry, "LOW", "Bridge")}

\* the values drawn for (growth noise, threat noise)
Noises == {[growth |-> 0, threat |-> 0], [growth |-> -900, threat |-> 6000]}

Batches ==
    {None} \cup {[items |-> b] : b \in UNION {[1..n -> TrainAssets] : n \in 0..MaxBatch}}

MixedBatches ==
    {None} \cup {[items |-> b] : b \in UNION {[1..n -> MixedAssets] : n \in 0..MaxBatch}}

\* what the environment decides during one train_all_models call on a batch:
\* the outcome of every unit, the noise drawn being zero
Environments(assets_data) ==
    [noises : IF hasattr(assets_data, "items")
              THEN {[i \in 1..Len(assets_data.items) |-> [growth |-> 0, threat |-> 0]]}
              ELSE {<< >>},
     persist_fails : {{}} \cup {{u} : u \in Units},
     measured : {[mse |-> 1, r2 |-> 90], [mse |-> 40, r2 |-> 0]},
     flagged : {0, 1}]

\* what the environment decides when every unit trains without failure: the
\* noise drawn for each asset
NoiseEnvironments(assets_data) ==
    [noises : IF hasattr(assets_data, "items")
              THEN [1..Len(assets_data.items) -> Noises] ELSE {<< >>},
     persist_fails : {{}},
     measured : {[mse |-> 1, r2 |-> 90]},
     flagged : {1}]

\* ------------------------------------------------------------------------
\* State
\* ------------------------------------------------------------------------

VARIABLES
    clock,      \* the value datetime.now() returns
    last,       \* the latest call: its arguments and result
    prev,       \* the call before it, when recorded
    engine,     \* the GarudaMLEngine object, None where none is constructed
    predictor,  \* the GarudaGrowthPredictor object, None where none is constructed
    training    \* the train_growth_predictor call in progress, None where none is followed

vars == <<clock, last, prev, engine, predictor, training>>

InitClassifier ==
    /\ clock = 0
    /\ last = None
    /\ prev = None
    /\ engine = None
    /\ predictor = None
    /\ training = None

\* GarudaMLEngine(), with or without scikit-learn installed
InitEngine ==
    /\ clock = 0
    /\ last = None
    /\ prev = None
    /\ engine \in {NewEngine(b) : b \in BOOLEAN}
    /\ predictor = None
    /\ training = None

Tick ==
    /\ clock < MaxClock
    /\ clock' = clock + 1
    /\ UNCHANGED <<last, prev, engine, predictor, training>>

\* the call returned from the try block, not from the except clause
Completed(call) == call # None /\ ~("error" \in DOMAIN call.result)

\* variant: the keyword score is not reset and carries over from the call before
ClassifyCallCarryOver(a, record) ==
    LET r == classify_asset_real(a.asset_name, a.asset_type, a.asset_polygon, a.osm_tags, clock)
        carried == IF Completed(last)
                   THEN last.result.analysis.infrastructure_criticality.score ELSE 0
    IN  /\ last' = [args   |-> a,
                    result |-> IF "error" \in DOMAIN r THEN r
                               ELSE [r EXCEPT !.classification_score = @ + carried]]
        /\ prev' = IF record THEN last ELSE prev
        /\ UNCHANGED <<clock, engine, predictor, training>>

ClassifyCall(a, record) ==
    /\ last' = [args   |-> a,
                result |-> classify_asset_real(a.asset_name, a.asset_type,
                                               a.asset_polygon, a.osm_tags, clock)]
    /\ prev' = IF record THEN last ELSE prev
    /\ UNCHANGED <<clock, engine, predictor, training>>

Classify == \E a \in ClassifierInputs : ClassifyCall(a, FALSE)

ClassifyRecorded == \E a \in PairInputs : ClassifyCall(a, TRUE)

Init == InitClassifier

ExtractCall(asset, record) ==
    /\ last' = [args |-> asset, result |-> extract_asset_features(asset)]
    /\ prev' = IF record THEN last ELSE prev
    /\ UNCHANGED <<clock, engine, predictor, training>>

Extract == \E asset \in ExtractAssets : ExtractCall(asset, FALSE)

ExtractRecorded == \E asset \in ExtractPairAssets : ExtractCall(asset, TRUE)

TrainCall(assets_data, env) ==
    LET done == train_all_models(engine, assets_data, env, clock)
    IN  /\ engine' = done.engine
        /\ last' = [args |-> assets_data, result |-> done.result,
                    attempted |-> done.attempted, env |-> env]
        /\ UNCHANGED <<clock, prev, predictor, training>>

TrainAll ==
    \E assets_data \in Batches : \E env \in Environments(assets_data) :
        TrainCall(assets_data, env)

TrainMixed ==
    \E assets_data \in MixedBatches : \E env \in NoiseEnvironments(assets_data) :
        TrainCall(assets_data, env)

ClassifyGeoRecorded == \E a \in GeoPairInputs : ClassifyCall(a, TRUE)

Next == Classify

Spec == Init /\ [][Next]_vars

NextPair == Tick \/ ClassifyRecorded

SpecPair == Init /\ [][NextPair]_vars

NextGeoPair == ClassifyGeoRecorded

SpecGeoPair == Init /\ [][NextGeoPair]_vars


NextExtract == Extract

SpecExtract == InitEngine /\ [][NextExtract]_vars

NextExtractPair == ExtractRecorded

SpecExtractPair == InitEngine /\ [][NextExtractPair]_vars

NextTrain == TrainAll

SpecTrain == InitEngine /\ [][NextTrain]_vars

NextTrainMixed == TrainMixed

SpecTrainMixed == InitEngine /\ [][NextTrainMixed]_vars


\* ------------------------------------------------------------------------
\* GarudaMLEngine: prediction and simulation calls
\* ------------------------------------------------------------------------

PredictAssets ==
    {None,
     AssetDict(NorthOf(border_areas[1].coords, 0), "HIGH", "Airport"),
     AssetDict(Absent, "LOW", "Bridge"),
     AssetDict(NorthOf(RemotePoint, 0), "MEDIUM", "Railway Infrastructure")}

\* what the environment decides during predict_growth_rate
GrowthDraws == [noise : {0, -900}, predicted : {250, 600}, above : {FALSE}]

\* what the environment decides during predict_threat_level
ThreatDraws == [noise : {0, -6000}, predicted : {3999, 7000}, above : {FALSE}]

\* what the environment decides during detect_anomalies
AnomalyDraws ==
    [noise : {-5001, -5000, -2000}, predicted : {-5001, 1500},
     above : BOOLEAN]

\* record distinguishes the calls whose results are compared pairwise
PredictCall(op, asset, env, result, record) ==
    /\ last' = [op |-> op, args |-> asset, env |-> env, result |-> result]
    /\ prev' = IF record THEN last ELSE prev
    /\ UNCHANGED <<clock, engine, predictor, training>>

PredictGrowthCall(asset, env, record) ==
    PredictCall("predict_growth_rate", asset, env,
                predict_growth_rate(engine, asset, env, clock), record)

PredictThreatCall(asset, env, record) ==
    PredictCall("predict_threat_level", asset, env,
                predict_threat_level(engine, asset, env, clock), record)

DetectAnomaliesCall(asset, env, record) ==
    PredictCall("detect_anomalies", asset, env,
                detect_anomalies(engine, asset, env, clock), record)

PredictGrowth == \E asset \in PredictAssets : \E env \in GrowthDraws :
    PredictGrowthCall(asset, env, FALSE)

PredictThreat == \E asset \in PredictAssets : \E env \in ThreatDraws :
    PredictThreatCall(asset, env, FALSE)

DetectAnomalies == \E asset \in PredictAssets : \E env \in AnomalyDraws :
    DetectAnomaliesCall(asset, env, FALSE)

\* the batch of the training run that precedes predictions
TwoAssets ==
    [items |-> <<AssetDict(NorthOf(border_areas[1].coords, 0), "HIGH", "Airport"),
                 AssetDict(Absent, "LOW", "Bridge")>>]

TrainOnce == \E env \in Environments(TwoAssets) : TrainCall(TwoAssets, env)

NextPredict == TrainOnce \/ PredictGrowth \/ PredictThreat \/ DetectAnomalies

SpecPredict == InitEngine /\ [][NextPredict]_vars

\* the assets whose predictions are compared pairwise
PredictPairAssets == {AssetDict(Absent, "HIGH", "Airport"), AssetDict(Absent, "LOW", "Bridge")}

PredictGrowthRecorded ==
    \E asset \in PredictPairAssets : \E env \in [noise : {0, 50}, predicted : {0}, above : {FALSE}] :
        PredictGrowthCall(asset, env, TRUE)

PredictThreatRecorded ==
    \E asset \in PredictPairAssets : \E env \in [noise : {0, 500}, predicted : {0}, above : {FALSE}] :
        PredictThreatCall(asset, env, TRUE)

DetectAnomaliesRecorded ==
    \E asset \in PredictPairAssets : \E env \in [noise : {0, -3000}, predicted : {0}, above : BOOLEAN] :
        DetectAnomaliesCall(asset, env, TRUE)

NextPredictPair == PredictGrowthRecorded \/ PredictThreatRecorded \/ DetectAnomaliesRecorded

SpecPredictPair == InitEngine /\ [][NextPredictPair]_vars

\* the types and priorities of the assets given to the simulate functions
SimulateAssets ==
    {AssetDict(Absent, p, t) : p \in {"HIGH", "MEDIUM", "LOW", ""},
                               t \in {"Airport", "Military Facility", "Warehouse", ""}}

\* feature vectors, those that no asset yields included
SimulateFeatures ==
    {[get_default_features EXCEPT !.border_proximity = b, !.economic_activity = e] :
        b \in {499999, 500000}, e \in {-2000, 100, 2000}}

\* the values drawn by np.random.normal, far tails included
SimulateNoises == {-20000, -900, 0, 50, 6000, 20000}

SimulateGrowth ==
    \E asset \in SimulateAssets : \E noise \in SimulateNoises :
        /\ last' = [op |-> "simulate_growth_rate",
                    args |-> [asset |-> asset, noise |-> noise],
                    result |-> simulate_growth_rate(asset, noise)]
        /\ UNCHANGED <<clock, prev, engine, predictor, training>>

SimulateThreat ==
    \E asset \in SimulateAssets : \E features \in SimulateFeatures : \E noise \in SimulateNoises :
        /\ last' = [op |-> "simulate_threat_score",
                    args |-> [asset |-> asset, features |-> features, noise |-> noise],
                    result |-> simulate_threat_score(asset, features, noise)]
        /\ UNCHANGED <<clock, prev, engine, predictor, training>>

NextSimulate == SimulateGrowth \/ SimulateThreat

SpecSimulate == InitEngine /\ [][NextSimulate]_vars

\* ------------------------------------------------------------------------
\* GarudaGrowthPredictor: calls
\* ------------------------------------------------------------------------

\* latitudes either side of every band of determine_region
RegionLats ==
    {140000, 150000, 150001, 200000, 200001, 230000, 230001,
     280000, 280001, 320000, 320001}

\* longitudes either side of every band of determine_region
RegionLons ==
    {720000, 729999, 730000, 749999, 750000, 769999, 770000,
     770001, 799999, 800000, 800001}

\* the longest run of equal assets in a batch given to analyze_growth_patterns
MaxGroup == 10

\* the longest horizon given to generate_growth_predictions
MaxHorizon == 13

\* the asset dict with the keys that are not Absent, type and priority being str
PatternAsset(polygon, priority, type) ==
    (IF polygon = Absent THEN EmptyDict ELSE [polygon |-> polygon])
    @@ (IF priority = Absent THEN EmptyDict ELSE [priority |-> priority])
    @@ (IF type = Absent THEN EmptyDict ELSE [type |-> type])

\* no geometry (New Delhi is substituted), Srinagar, Amritsar and a point of
\* the Deccan
PatternPolygons ==
    {Absent, Geometry(340837, 747973, 807), Geometry(316340, 748723, 807),
     Geometry(170000, 790000, 807)}

PatternPriorities == {<<"H","I","G","H">>, <<"M","E","D","I","U","M">>, <<"L","O","W">>, <<"U","R","G","E","N","T">>}

PatternTypes == {<<"A","i","r","p","o","r","t">>, <<"M","i","l","i","t","a","r","y"," ","F","a","c","i","l","i","t","y">>}

Repeat(asset, n) == [i \in 1..n |-> asset]

\* a run of n equal assets, alone or followed by an asset of the same group
\* with priority tail
RunBatch(g, p, t, n, tail) ==
    [items |-> Repeat(PatternAsset(g, p, t), n)
               \o (IF tail = Absent THEN << >> ELSE <<PatternAsset(g, tail, t)>>)]

\* runs of equal assets; an asset that is no dict; a type with an underscore
AnalyzeBatches ==
    {RunBatch(g, p, t, n, <<"H","I","G","H">>) :
        g \in PatternPolygons, p \in PatternPriorities, t \in PatternTypes, n \in {1, MaxGroup}}
    \cup {RunBatch(g, p, t, n, Absent) :
        g \in PatternPolygons, p \in PatternPriorities, t \in PatternTypes, n \in {1, MaxGroup}}
    \cup {[items |-> <<None, PatternAsset(Absent, Absent, Absent)>>],
          [items |-> <<PatternAsset(Absent, <<"M","E","D","I","U","M">>, <<"P","o","w","e","r","_","P","l","a","n","t">>),
                       PatternAsset(Geometry(340837, 747973, 807), <<"h","i","g","h">>, <<"P","o","w","e","r","_","P","l","a","n","t">>)>>],
          [items |-> << >>]}

\* the batches whose patterns are forecast
ForecastBatches ==
    {[items |-> << >>],
     [items |-> <<PatternAsset(Geometry(340837, 747973, 807), <<"L","O","W">>, <<"M","i","l","i","t","a","r","y"," ","F","a","c","i","l","i","t","y">>)>>],
     [items |-> <<PatternAsset(Absent, <<"H","I","G","H">>, <<"A","i","r","p","o","r","t">>),
                  PatternAsset(Absent, <<"U","R","G","E","N","T">>, <<"B","r","i","d","g","e">>),
                  PatternAsset(Absent, <<"L","O","W">>, <<"A","i","r","p","o","r","t">>)>>]}

Horizons == {0, 1, 2, MaxHorizon - 1, MaxHorizon}

\* GarudaGrowthPredictor()
InitPredictor ==
    /\ clock = 0
    /\ last = None
    /\ prev = None
    /\ engine = None
    /\ predictor = NewPredictor
    /\ training = None

RegionCall(lat, lon) ==
    /\ last' = [op |-> "determine_region", args |-> [lat |-> lat, lon |-> lon],
                result |-> determine_region(lat, lon)]
    /\ UNCHANGED <<clock, prev, engine, predictor, training>>

DetermineRegion ==
    \E lat \in RegionLats : \E lon \in RegionLons : RegionCall(Num(lat), Num(lon))

\* a latitude that cannot be compared with a number
DetermineRegionNoLat == \E lon \in RegionLons : RegionCall(None, Num(lon))

\* a longitude that cannot be compared with a number
DetermineRegionNoLon == \E lat \in RegionLats : RegionCall(Num(lat), None)

NextRegion == DetermineRegion \/ DetermineRegionNoLat \/ DetermineRegionNoLon

SpecRegion == InitPredictor /\ [][NextRegion]_vars

AnalyzeCall(assets_data, record) ==
    LET done == analyze_growth_patterns(predictor, assets_data)
    IN  /\ predictor' = done.predictor
        /\ last' = [op |-> "analyze_growth_patterns", args |-> assets_data,
                    raised |-> "raised" \in DOMAIN done,
                    result |-> IF "raised" \in DOMAIN done THEN << >> ELSE done.result]
        /\ prev' = IF record THEN last ELSE prev
        /\ UNCHANGED <<clock, engine, training>>

Analyze == \E assets_data \in AnalyzeBatches : AnalyzeCall(assets_data, FALSE)

NextAnalyze == Analyze

SpecAnalyze == InitPredictor /\ [][NextAnalyze]_vars

AnalyzeForecast == \E assets_data \in ForecastBatches : AnalyzeCall(assets_data, FALSE)

GenerateCall(time_horizon_months) ==
    LET done == generate_growth_predictions(predictor, time_horizon_months, clock)
    IN  /\ predictor' = done.predictor
        /\ last' = [op |-> "generate_growth_predictions", args |-> time_horizon_months,
                    result |-> done.result]
        /\ UNCHANGED <<clock, prev, engine, training>>

Generate == \E time_horizon_months \in Horizons : GenerateCall(Num(time_horizon_months))

\* a horizon that is no integer
GenerateNoHorizon == GenerateCall(None)

NextForecast == Tick \/ AnalyzeForecast \/ Generate \/ GenerateNoHorizon

SpecForecast == InitPredictor /\ [][NextForecast]_vars
\* ------------------------------------------------------------------------
\* GarudaGrowthPredictor: calls compared pairwise
\* ------------------------------------------------------------------------

\* a military facility at Srinagar
Facility(priority) ==
    PatternAsset(Geometry(340837, 747973, 807), priority, <<"M","i","l","i","t","a","r","y"," ","F","a","c","i","l","i","t","y">>)

\* an airport without geometry
Airport(priority) == PatternAsset(Absent, priority, <<"A","i","r","p","o","r","t">>)

\* batches and their rearrangements; an argument that is no dict
PairBatches ==
    {[items |-> << >>],
     [items |-> <<Airport(<<"H","I","G","H">>)>>],
     [items |-> <<Facility(<<"U","R","G","E","N","T">>)>>],
     [items |-> <<Airport(<<"H","I","G","H">>), Facility(<<"U","R","G","E","N","T">>)>>],
     [items |-> <<Facility(<<"U","R","G","E","N","T">>), Airport(<<"H","I","G","H">>)>>],
     [items |-> <<Airport(<<"H","I","G","H">>), Airport(<<"L","O","W">>), None>>],
     [items |-> <<None, Airport(<<"L","O","W">>), Airport(<<"H","I","G","H">>)>>],
     [items |-> <<Facility(<<"U","R","G","E","N","T">>), Facility(<<"L","O","W">>), Facility(<<"C","R","I","T","I","C","A","L">>)>>],
     [items |-> <<Facility(<<"C","R","I","T","I","C","A","L">>), Facility(<<"L","O","W">>), Facility(<<"U","R","G","E","N","T">>)>>],
     [items |-> <<Facility(<<"L","O","W">>), Facility(<<"L","O","W">>), Facility(<<"H","I","G","H">>),
                  Facility(<<"H","I","G","H">>), Facility(<<"L","O","W">>), Facility(<<"L","O","W">>)>>],
     [items |-> <<Facility(<<"H","I","G","H">>), Facility(<<"L","O","W">>), Facility(<<"H","I","G","H">>),
                  Facility(<<"L","O","W">>), Facility(<<"L","O","W">>), Facility(<<"L","O","W">>)>>],
     None}

AnalyzeRecorded == \E assets_data \in PairBatches : AnalyzeCall(assets_data, TRUE)

NextAnalyzePair == AnalyzeRecorded

SpecAnalyzePair == InitPredictor /\ [][NextAnalyzePair]_vars

\* ------------------------------------------------------------------------
\* GarudaGrowthPredictor: hotspots
\* ------------------------------------------------------------------------

HotspotTypes ==
    <<<<"A","i","r","p","o","r","t">>, <<"B","r","i","d","g","e">>, <<"M","i","l","i","t","a","r","y"," ","F","a","c","i","l","i","t","y">>, <<"P","o","w","e","r"," ","I","n","f","r","a","s","t","r","u","c","t","u","r","e">>,
      <<"R","a","i","l","w","a","y"," ","I","n","f","r","a","s","t","r","u","c","t","u","r","e">>, <<"B","o","r","d","e","r"," ","I","n","f","r","a","s","t","r","u","c","t","u","r","e">>, <<"P","o","r","t">>, <<"D","a","m">>,
      <<"D","e","p","o","t">>, <<"T","o","w","e","r">>, <<"C","a","n","a","l">>, <<"M","i","n","e">>>>

\* one asset of each of the first k types, and a batch of two groups of
\* different size
HotspotBatches ==
    {[items |-> [i \in 1..k |-> PatternAsset(Absent, p, HotspotTypes[i])]] :
        k \in 0..Len(HotspotTypes), p \in {<<"H","I","G","H">>, <<"L","O","W">>}}
    \cup {[items |-> <<Airport(<<"L","O","W">>), Facility(<<"L","O","W">>), Facility(<<"L","O","W">>)>>]}

\* the numbers of hotspots that callers select
TopCounts == {1, 5, 10, 11}

AnalyzeHotspots == \E assets_data \in HotspotBatches : AnalyzeCall(assets_data, FALSE)

\* a caller takes the first n of the hotspots returned, as
\* generate_growth_report takes hotspots[:5]
IdentifyHotspots ==
    \E n \in TopCounts :
        LET hotspots == identify_growth_hotspots(predictor)
        IN  /\ last' = [op |-> "identify_growth_hotspots", args |-> n,
                        result |-> hotspots,
                        selected |-> SubSeq(hotspots, 1, Min2(n, Len(hotspots)))]
            /\ UNCHANGED <<clock, prev, engine, predictor, training>>

NextHotspots == AnalyzeHotspots \/ IdentifyHotspots

SpecHotspots == InitPredictor /\ [][NextHotspots]_vars

\* ------------------------------------------------------------------------
\* GarudaGrowthPredictor: growth scores
\* ------------------------------------------------------------------------

ScoreTypes ==
    {<<"A","i","r","p","o","r","t">>, <<"R","a","i","l","w","a","y"," ","I","n","f","r","a","s","t","r","u","c","t","u","r","e">>, <<"M","i","l","i","t","a","r","y"," ","F","a","c","i","l","i","t","y">>, <<"W","a","r","e","h","o","u","s","e">>}

ScorePriorities == {<<"H","I","G","H">>, <<"M","E","D","I","U","M">>, <<"L","O","W">>, <<"U","R","G","E","N","T">>}

ScoreRegions ==
    {<<"N","o","r","t","h","_","K","a","s","h","m","i","r">>, <<"N","o","r","t","h","_","P","u","n","j","a","b">>, <<"N","o","r","t","h","_","D","e","l","h","i","_","N","C","R">>, <<"W","e","s","t","_","R","a","j","a","s","t","h","a","n">>,
     <<"C","e","n","t","r","a","l","_","M","P","_","U","P">>, <<"E","a","s","t","_","B","e","n","g","a","l">>, <<"S","o","u","t","h","_","D","e","c","c","a","n">>, <<"W","e","s","t","_","M","a","h","a","r","a","s","h","t","r","a">>,
     <<"S","o","u","t","h","_","T","a","m","i","l","_","N","a","d","u">>, <<"C","e","n","t","r","a","l","_","I","n","d","i","a">>}

CalculateScore ==
    \E t \in ScoreTypes : \E p \in ScorePriorities : \E region \in ScoreRegions :
    \E typed \in BOOLEAN : \E prioritised \in BOOLEAN :
        \* a key the asset lacks is read as its default by asset.get
        LET asset == PatternAsset(Absent, IF prioritised THEN p ELSE Absent,
                                  IF typed THEN t ELSE Absent)
        IN  /\ last' = [op |-> "calculate_growth_score",
                        args |-> [asset |-> asset, region |-> region],
                        result |-> calculate_growth_score(asset, region)]
            /\ UNCHANGED <<clock, prev, engine, predictor, training>>

AnalyzeScored == \E assets_data \in PairBatches : AnalyzeCall(assets_data, FALSE)

NextScore == CalculateScore \/ AnalyzeScored

SpecScore == InitPredictor /\ [][NextScore]_vars

\* ------------------------------------------------------------------------
\* GarudaMLEngine: train_growth_predictor statement by statement, with
\* predict_growth_rate called from another thread
\* ------------------------------------------------------------------------

\* the number of training runs followed
MaxRuns == 3

\* engine.growth_predictor is the number of the run whose fit made the
\* parameters of the model (0: as constructed); engine.scalers.growth is
\* the number of the run that stored the scaler
InitTraining ==
    /\ clock = 0
    /\ last = None
    /\ prev = None
    /\ engine = [SKLEARN_AVAILABLE |-> TRUE, growth_predictor |-> 0, scalers |-> EmptyDict]
    /\ predictor = None
    /\ training = [pc |-> "idle", run |-> 0, failed |-> ""]

\* scaler = StandardScaler(); fit_transform; train_test_split
TrainScale ==
    /\ training.pc = "idle" /\ training.run < MaxRuns
    /\ training' = [pc |-> "scaled", run |-> training.run + 1, failed |-> ""]
    /\ UNCHANGED <<clock, last, prev, engine, predictor>>

\* fit_transform or train_test_split raises: the except clause returns
TrainScaleFails ==
    /\ training.pc = "idle" /\ training.run < MaxRuns
    /\ training' = [pc |-> "idle", run |-> training.run + 1, failed |-> "scale"]
    /\ UNCHANGED <<clock, last, prev, engine, predictor>>

\* variant: the scaler is stored by the statement that fits the model
TrainFitStoring ==
    /\ training.pc = "scaled"
    /\ engine' = [engine EXCEPT !.growth_predictor = training.run,
                                !.scalers = [growth |-> training.run]]
    /\ training' = [training EXCEPT !.pc = "fitted"]
    /\ UNCHANGED <<clock, last, prev, predictor>>

\* self.growth_predictor.fit(X_train, y_train)
TrainFit ==
    /\ training.pc = "scaled"
    /\ engine' = [engine EXCEPT !.growth_predictor = training.run]
    /\ training' = [training EXCEPT !.pc = "fitted"]
    /\ UNCHANGED <<clock, last, prev, predictor>>

\* predict, mean_squared_error or r2_score raises: the except clause returns
TrainEvaluateFails ==
    /\ training.pc = "fitted"
    /\ training' = [training EXCEPT !.pc = "idle", !.failed = "evaluate"]
    /\ UNCHANGED <<clock, last, prev, engine, predictor>>

\* the evaluation, then self.scalers['growth'] = scaler
TrainStore ==
    /\ training.pc = "fitted"
    /\ engine' = [engine EXCEPT !.scalers = [growth |-> training.run]]
    /\ training' = [training EXCEPT !.pc = "stored"]
    /\ UNCHANGED <<clock, last, prev, predictor>>

\* joblib.dump twice, then the metrics are returned
TrainPersist ==
    /\ training.pc = "stored"
    /\ training' = [training EXCEPT !.pc = "idle"]
    /\ UNCHANGED <<clock, last, prev, engine, predictor>>

\* joblib.dump raises: the except clause returns
TrainPersistFails ==
    /\ training.pc = "stored"
    /\ training' = [training EXCEPT !.pc = "idle", !.failed = "persist"]
    /\ UNCHANGED <<clock, last, prev, engine, predictor>>

\* predict_growth_rate from another thread: the scaler and the model it reads
PredictShared ==
    /\ last' = [op |-> "predict_growth_rate",
                real |-> engine.SKLEARN_AVAILABLE /\ "growth" \in DOMAIN engine.scalers,
                scaler |-> DictGet(engine.scalers, "growth", 0),
                model |-> engine.growth_predictor,
                during |-> training]
    /\ UNCHANGED <<clock, prev, engine, predictor, training>>

NextTraining ==
    \/ TrainScale \/ TrainScaleFails \/ TrainFit \/ TrainEvaluateFails
    \/ TrainStore \/ TrainPersist \/ TrainPersistFails \/ PredictShared

SpecTraining == InitTraining /\ [][NextTraining]_vars

\* ------------------------------------------------------------------------
\* GarudaMLEngine: the border terms of assets across India
\* ------------------------------------------------------------------------

\* latitudes and longitudes spanning India, the four reference lines of
\* border_proximity and the points farthest from them included
IndiaLatitudes == {65000, 84000, 240000, 286139, 350000, 371000}

IndiaLongitudes == {681000, 772090, 825000, 970000, 974000}

\* assets inside India, an asset without geometry and one whose geometry
\* makes extract_asset_features return the default vector
BorderAssets ==
    {AssetDict(g, p, "Airport") :
        g \in {Geometry(lat, lon, 807) : lat \in IndiaLatitudes, lon \in IndiaLongitudes}
              \cup {Absent, NoAreaGeometry},
        p \in {"HIGH", "LOW"}}

BorderDraws == [noise : {0, -6000, 900}, predicted : {3999}, above : {FALSE}]

ExtractBorder == \E asset \in BorderAssets : ExtractCall(asset, FALSE)

PredictBorder == \E asset \in BorderAssets : \E env \in BorderDraws :
    PredictThreatCall(asset, env, FALSE)

NextBorder == ExtractBorder \/ PredictBorder

SpecBorder == InitEngine /\ [][NextBorder]_vars

\* ------------------------------------------------------------------------
\* Properties of GarudaRealClassifier
\* ------------------------------------------------------------------------

InFactors(f, factors) == \E i \in 1..Len(factors) : factors[i] = f

\* C1: a classify_asset_real call that completes without internal error returns
\* priority HIGH iff classification_score >= 80, MEDIUM iff 50 <= score < 80 and
\* LOW otherwise, so 49, 50, 79, 80 give LOW, MEDIUM, MEDIUM, HIGH.
C1_PriorityThresholds ==
    Completed(last) =>
        LET s == last.result.classification_score
            p == last.result.priority
        IN  /\ (p = "HIGH") <=> (s >= 80)
            /\ (p = "MEDIUM") <=> (s >= 50 /\ s < 80)
            /\ (p = "LOW") <=> (s < 50)
            /\ p \in {"HIGH", "MEDIUM", "LOW"}

C1_Witness ==
    /\ Completed(last)
    /\ last.result.classification_score = 80
    /\ last.result.priority = "HIGH"

\* the boundary scores 49, 50 and 79 are produced as well
C1_Reach49 == ~(Completed(last) /\ last.result.classification_score = 49)

C1_Reach50 == ~(Completed(last) /\ last.result.classification_score = 50)

C1_Reach79 == ~(Completed(last) /\ last.result.classification_score = 79)

\* every field of a result but the timestamp
WithoutTimestamp(r) == [f \in DOMAIN r \ {"classified_at"} |-> r[f]]

\* C2 (as stated): two calls that agree on asset type, tags, point and area
\* return the same priority, threat level, score, factors and breakdown,
\* whatever the asset name, the time of the calls and the calls made before.
C2_SameTypeTagsGeometrySameResult ==
    (/\ prev # None /\ last # None
     /\ prev.args.asset_type = last.args.asset_type
     /\ prev.args.osm_tags = last.args.osm_tags
     /\ prev.args.asset_polygon = last.args.asset_polygon)
    => WithoutTimestamp(prev.result) = WithoutTimestamp(last.result)

\* C2 (amended): two calls that agree on asset name, type, tags, point and area
\* return results identical in every field but classified_at, whatever the
\* time of the calls and the calls made before.
C2_SameArgumentsSameResult ==
    (prev # None /\ last # None /\ prev.args = last.args)
    => WithoutTimestamp(prev.result) = WithoutTimestamp(last.result)

C2_Witness ==
    /\ Completed(prev) /\ Completed(last)
    /\ prev.args = last.args
    /\ prev.result.classified_at # last.result.classified_at

TestBridge ==
    [asset_name |-> Str(<<"T","e","s","t"," ","B","r","i","d","g","e">>), asset_type |-> "Bridge",
     asset_polygon |-> Geometry(286139, 772090, 0), osm_tags |-> [highway |-> "primary"]]

\* the type sub-score is what the four sub-scores of the analysis leave of the total
TypeSubScore(r) ==
    r.classification_score - r.analysis.geographic_importance.score
    - r.analysis.border_proximity.score - r.analysis.infrastructure_criticality.score
    - r.analysis.size_assessment.score

\* C3 (as stated): "Test Bridge", a Bridge at (28.6139, 77.2090) tagged
\* highway=primary, gets type sub-score 60, geographic sub-score 10 and priority HIGH.
C3_TestBridgeHigh ==
    (last # None /\ last.args = TestBridge) =>
        /\ Completed(last)
        /\ TypeSubScore(last.result) = 60
        /\ last.result.analysis.geographic_importance.score = 10
        /\ last.result.priority = "HIGH"

\* C3 (amended): the same asset gets type sub-score 60, geographic sub-score 10,
\* total score 70 and therefore priority MEDIUM.
C3_TestBridgeMedium ==
    (last # None /\ last.args = TestBridge) =>
        /\ Completed(last)
        /\ TypeSubScore(last.result) = 60
        /\ last.result.analysis.geographic_importance.score = 10
        /\ last.result.classification_score = 70
        /\ last.result.priority = "MEDIUM"

C3_Witness == last # None /\ last.args = TestBridge

\* the number of factors that contain one of the words of the claim
HighThreatCount(factors) ==
    Cardinality({i \in 1..Len(factors) :
                    \E w \in {<<"b","o","r","d","e","r">>, <<"m","i","l","i","t","a","r","y">>, <<"n","u","c","l","e","a","r">>, <<"i","n","t","e","r","n","a","t","i","o","n","a","l">>} :
                        Contains(w, factors[i])})

\* C4: with k the number of factors matching border, military, nuclear or
\* international, the threat level is HIGH iff 0.7*score + 10*k >= 70, MEDIUM
\* iff that value is in [40, 70), LOW otherwise (compared here times ten).
C4_ThreatThresholds ==
    Completed(last) =>
        LET v == 7 * last.result.classification_score
                 + 100 * HighThreatCount(last.result.threat_factors)
            t == last.result.threat_level
        IN  /\ (t = "HIGH") <=> (v >= 700)
            /\ (t = "MEDIUM") <=> (v >= 400 /\ v < 700)
            /\ (t = "LOW") <=> (v < 400)

\* a result whose threat level is HIGH only through its matching factors
C4_Witness ==
    /\ Completed(last)
    /\ HighThreatCount(last.result.threat_factors) >= 1
    /\ 7 * last.result.classification_score < 700
    /\ last.result.threat_level = "HIGH"

\* C5: a call whose geometry has no centroid uses (28.6139, 77.2090) and lists
\* the factor fallback_location; the factor is absent when the asset's own
\* point was used.
C5_FallbackLocationReported ==
    Completed(last) =>
        IF hasattr(last.args.asset_polygon, "centroid")
        THEN ~InFactors(<<"f","a","l","l","b","a","c","k","_","l","o","c","a","t","i","o","n">>, last.result.threat_factors)
        ELSE /\ last.result.coordinates = DelhiFallback
             /\ InFactors(<<"f","a","l","l","b","a","c","k","_","l","o","c","a","t","i","o","n">>, last.result.threat_factors)

\* the only city within 100 km of both points, if there is one
SharedCity(p, q) ==
    {c \in 1..Len(major_cities) :
        /\ geodesic(p, major_cities[c].coords) <= 1000000
        /\ geodesic(q, major_cities[c].coords) <= 1000000
        /\ \A o \in 1..Len(major_cities) \ {c} :
              /\ geodesic(p, major_cities[o].coords) > 1000000
              /\ geodesic(q, major_cities[o].coords) > 1000000}

ListedZones ==
    {border_areas[i].coords : i \in 1..Len(border_areas)}
    \cup {military_zones[i].coords : i \in 1..Len(military_zones)}

\* C7: the border sub-score is 0 for a point farther than 50 km from every
\* listed border area and military zone, and positive for a point at distance 0
\* from one of them.
C7_BorderScoreByZone ==
    Completed(last) =>
        LET p == last.result.coordinates
            b == last.result.analysis.border_proximity.score
        IN  /\ (\A z \in ListedZones : geodesic(p, z) > 500000) => b = 0
            /\ (\E z \in ListedZones : geodesic(p, z) = 0) => b > 0

\* ------------------------------------------------------------------------
\* Properties of GarudaMLEngine
\* ------------------------------------------------------------------------

FeatureNames ==
    {"latitude", "longitude", "area_sq_m", "priority_score", "type_score",
     "distance_to_capital", "border_proximity", "population_density", "economic_activity"}

\* the asset has no geometry with a centroid
MissingGeometry(asset) ==
    asset # None /\ ~hasattr(DictGet(asset, "polygon", None), "centroid")

\* C8 (as stated): extract_asset_features never raises, and on any internal
\* error, missing geometry included, it returns the default FeatureVector of
\* nine fixed constants.
C8_DefaultsOnAnyDefect ==
    last # None =>
        /\ DOMAIN last.result = FeatureNames
        /\ (ExtractError(last.args) \/ MissingGeometry(last.args)) =>
              last.result = [latitude |-> 286139, longitude |-> 772090, area_sq_m |-> 1000,
                             priority_score |-> 1, type_score |-> 1,
                             distance_to_capital |-> 1000000, border_proximity |-> 2000000,
                             population_density |-> 1000, economic_activity |-> 30]

\* C8 (amended): extract_asset_features never raises; on an internal error it
\* returns the default FeatureVector of nine fixed constants; a missing
\* geometry is no internal error: (28.6139, 77.2090) and area 1000 are
\* substituted and the other features are computed from them and from the
\* asset, so that distance_to_capital is 0 and border_proximity 4.6139.
C8_DefaultsOnInternalError ==
    last # None =>
        /\ DOMAIN last.result = FeatureNames
        /\ ExtractError(last.args) =>
              last.result = [latitude |-> 286139, longitude |-> 772090, area_sq_m |-> 1000,
                             priority_score |-> 1, type_score |-> 1,
                             distance_to_capital |-> 1000000, border_proximity |-> 2000000,
                             population_density |-> 1000, economic_activity |-> 30]
        /\ MissingGeometry(last.args) =>
              /\ last.result.latitude = 286139
              /\ last.result.longitude = 772090
              /\ last.result.area_sq_m = 1000
              /\ last.result.distance_to_capital = 0
              /\ last.result.border_proximity = 46139
              /\ last.result.priority_score =
                    (IF "priority" \in DOMAIN last.args /\ last.args["priority"] = "HIGH" THEN 3
                     ELSE IF "priority" \in DOMAIN last.args /\ last.args["priority"] = "MEDIUM"
                     THEN 2 ELSE 1)

\* an internal error on an asset that is a dict: its geometry is malformed
C8_Witness ==
    /\ last # None /\ last.args # None
    /\ ExtractError(last.args)
    /\ last.result.distance_to_capital = 1000000

\* C9: the result for an asset without geometry, or for a defaulted
\* extraction, is never equal to the result of a true extraction of an asset
\* with real geometry.
C9_SubstitutionDetectable ==
    (/\ prev # None /\ last # None
     /\ ExtractError(prev.args) \/ MissingGeometry(prev.args)
     /\ ~ExtractError(last.args) /\ ~MissingGeometry(last.args))
    => prev.result # last.result

\* C10: train_all_models never raises; with zero assets it returns
\* samples_trained = 0, and when the orchestration step throws it returns a
\* result with an error field and samples_trained = 0.
C10_TrainAllNeverRaises ==
    last # None =>
        /\ "samples_trained" \in DOMAIN last.result
        /\ (hasattr(last.args, "items") /\ Len(last.args.items) = 0) =>
              /\ last.result.samples_trained = 0
              /\ ~("error" \in DOMAIN last.result)
        /\ PrepareError(last.args) =>
              /\ "error" \in DOMAIN last.result
              /\ last.result.samples_trained = 0

\* the orchestration step throws on an engine that has trained on samples before
C10_Witness ==
    /\ last # None
    /\ PrepareError(last.args)
    /\ Len(engine.feature_df) > 0
    /\ "error" \in DOMAIN last.result

\* a training run on zero assets is reached as well
C10_ReachEmpty ==
    ~(/\ last # None /\ hasattr(last.args, "items") /\ Len(last.args.items) = 0
      /\ last.result.samples_trained = 0)

\* ------------------------------------------------------------------------
\* Properties of the training units
\* ------------------------------------------------------------------------

\* a train_all_models call
Trained(call) == call # None /\ "attempted" \in DOMAIN call

\* the metrics a unit returns from its except clause
Sentinel(u) == IF u = "anomaly" THEN [anomaly_rate |-> 0] ELSE [mse |-> 99900, r2 |-> 0]

\* the metrics of unit u in a training summary
UnitMetrics(result, u) ==
    CASE u = "growth"  -> result.growth_model
      [] u = "threat"  -> result.threat_model
      [] u = "anomaly" -> result.anomaly_model

\* training unit u raised in the call: the scaler or the split had too few
\* samples, or the fitted model could not be persisted
UnitFailed(call, u) ==
    /\ call.result.sklearn_available
    /\ \/ call.result.samples_trained < (IF u = "anomaly" THEN 1 ELSE 2)
       \/ u \in call.env.persist_fails

\* the metrics unit u returns when its own training does not raise
UnitAlone(call, u) ==
    IF ~call.result.sklearn_available
    THEN CASE u = "growth"  -> [mse |-> 1, r2 |-> 85]
           [] u = "threat"  -> [mse |-> 2, r2 |-> 78]
           [] u = "anomaly" -> [anomaly_rate |-> 10]
    ELSE IF u = "anomaly"
    THEN [anomaly_rate |-> (100 * Min2(call.env.flagged, call.result.samples_trained))
                           \div call.result.samples_trained]
    ELSE call.env.measured

UnitsIsolated(call) ==
    /\ call.attempted = <<"growth", "threat", "anomaly">>
    /\ ~("error" \in DOMAIN call.result)
    /\ \A u \in Units :
          UnitMetrics(call.result, u) =
              IF UnitFailed(call, u) THEN Sentinel(u) ELSE UnitAlone(call, u)

\* C11 (as stated): in every run of train_all_models the three units are
\* attempted in the order growth, threat, anomaly; a unit whose training fails
\* reports its sentinel metrics, no exception leaves the call, and every other
\* unit reports what it reports when trained alone.
C11_EveryRunTrainsThreeUnits == Trained(last) => UnitsIsolated(last)

\* C11 (amended): in every run of train_all_models whose data preparation does
\* not raise, the three units are attempted in the order growth, threat,
\* anomaly; a unit whose training fails reports its sentinel metrics, no
\* exception leaves the call, and every other unit reports what it reports
\* when trained alone.
C11_PreparedRunTrainsThreeUnits ==
    (Trained(last) /\ ~PrepareError(last.args)) => UnitsIsolated(last)

\* the growth unit alone fails, the two other units report measured metrics
C11_Witness ==
    /\ Trained(last) /\ ~PrepareError(last.args)
    /\ last.env.persist_fails = {"growth"}
    /\ last.result.samples_trained = 2
    /\ last.result.growth_model = Sentinel("growth")
    /\ last.result.threat_model = [mse |-> 1, r2 |-> 90]
    /\ last.result.anomaly_model = [anomaly_rate |-> 50]

\* the assets of a batch whose processing raises inside the loop
Skipped(items) == {i \in 1..Len(items) : SimulateError(items[i])}

\* C12: for any batch of assets, prepare_training_data skips exactly the
\* assets whose processing raises, so the feature, growth-target and
\* threat-target sequences have one length, the number of assets not skipped,
\* and train_all_models reports that number as samples_trained.
C12_SkippedAssetsOnly ==
    (Trained(last) /\ ~PrepareError(last.args)) =>
        LET kept == Len(last.args.items) - Cardinality(Skipped(last.args.items))
        IN  /\ Len(engine.feature_df) = kept
            /\ Len(engine.growth_df) = kept
            /\ Len(engine.threat_df) = kept
            /\ last.result.samples_trained = kept
            /\ ~("error" \in DOMAIN last.result)

\* a batch of one skipped asset and one asset kept with default features
C12_Witness ==
    /\ Trained(last) /\ ~PrepareError(last.args)
    /\ Len(last.args.items) = 2
    /\ Cardinality(Skipped(last.args.items)) = 1
    /\ last.result.samples_trained = 1
    /\ engine.feature_df = <<get_default_features>>

\* ------------------------------------------------------------------------
\* Properties of the predictions
\* ------------------------------------------------------------------------

\* a call of one of the three predict methods
Predicted(call, op) == call # None /\ "op" \in DOMAIN call /\ call.op = op

\* the call was answered by the simulate formula, not by a fitted model
Fallback(call, unit) == ~RealPrediction(engine, unit)

\* C13: every result of predict_growth_rate, predict_threat_level and
\* detect_anomalies, returned from the try block or from the except clause,
\* carries a label that is the threshold category of the number in the same
\* result: growth >= 0.06 RAPID, >= 0.03 MODERATE, >= 0.01 SLOW, else STABLE;
\* threat >= 0.7 HIGH, >= 0.4 MEDIUM, else LOW; anomaly score < -0.5
\* HIGH_ANOMALY, < -0.2 MODERATE_ANOMALY, else NORMAL.
C13_LabelMatchesValue ==
    /\ Predicted(last, "predict_growth_rate") =>
          LET v == last.result.predicted_growth_rate
          IN  last.result.growth_category =
                IF v >= 600 THEN "RAPID" ELSE IF v >= 300 THEN "MODERATE"
                ELSE IF v >= 100 THEN "SLOW" ELSE "STABLE"
    /\ Predicted(last, "predict_threat_level") =>
          LET v == last.result.predicted_threat_score
          IN  last.result.threat_level =
                IF v >= 7000 THEN "HIGH" ELSE IF v >= 4000 THEN "MEDIUM" ELSE "LOW"
    /\ Predicted(last, "detect_anomalies") =>
          LET v == last.result.anomaly_score
          IN  /\ "anomaly_level" \in DOMAIN last.result
              /\ last.result.anomaly_level =
                    IF v < -5000 THEN "HIGH_ANOMALY"
                    ELSE IF v < -2000 THEN "MODERATE_ANOMALY" ELSE "NORMAL"

\* C14: while a unit has no fitted state, two predict calls for the same
\* asset on the same engine return the same growth rate, the same threat score
\* and the same anomaly flag and score.
C14_FallbackDeterministic ==
    (/\ prev # None /\ last # None
     /\ prev.op = last.op /\ prev.args = last.args) =>
        /\ (last.op = "predict_growth_rate" /\ Fallback(last, "growth")) =>
              prev.result.predicted_growth_rate = last.result.predicted_growth_rate
        /\ (last.op = "predict_threat_level" /\ Fallback(last, "threat")) =>
              prev.result.predicted_threat_score = last.result.predicted_threat_score
        /\ (last.op = "detect_anomalies" /\ Fallback(last, "anomaly")) =>
              /\ prev.result.is_anomaly = last.result.is_anomaly
              /\ prev.result.anomaly_score = last.result.anomaly_score

\* C15: for every asset, every feature vector and every value of the noise,
\* simulate_threat_score returns a score in [0, 1] and simulate_growth_rate a
\* rate >= 0.
C15_SimulatedInRange ==
    /\ Predicted(last, "simulate_threat_score") =>
          (last.result >= 0 /\ last.result <= 10000)
    /\ Predicted(last, "simulate_growth_rate") => last.result >= 0

\* the noise takes the score of a HIGH priority asset near the border above 1
C15_Witness ==
    /\ Predicted(last, "simulate_threat_score")
    /\ last.args.noise = 20000
    /\ last.args.features.economic_activity = 2000
    /\ last.result = 10000

\* the noise takes a growth rate below 0 as well
C15_ReachFloor ==
    ~(/\ Predicted(last, "simulate_growth_rate")
      /\ last.args.noise = -20000
      /\ last.result = 0)

\* ------------------------------------------------------------------------
\* Properties of the growth predictor
\* ------------------------------------------------------------------------

\* the band of row i of the table of determine_region, the last row being
\* the final else
Band(i, lat, lon) ==
    CASE i = 1 -> lat > 320000
      [] i = 2 -> lat > 280000 /\ lon < 770000
      [] i = 3 -> lat > 280000 /\ lon >= 770000
      [] i = 4 -> lat > 230000 /\ lon < 730000
      [] i = 5 -> lat > 230000 /\ lon < 800000
      [] i = 6 -> lat > 200000 /\ lon > 800000
      [] i = 7 -> lat > 150000 /\ lon > 770000
      [] i = 8 -> lon < 750000
      [] i = 9 -> TRUE

\* the region named by row i
BandRegion ==
    <<<<"N","o","r","t","h","_","K","a","s","h","m","i","r">>, <<"N","o","r","t","h","_","P","u","n","j","a","b">>, <<"N","o","r","t","h","_","D","e","l","h","i","_","N","C","R">>, <<"W","e","s","t","_","R","a","j","a","s","t","h","a","n">>,
      <<"C","e","n","t","r","a","l","_","M","P","_","U","P">>, <<"E","a","s","t","_","B","e","n","g","a","l">>, <<"S","o","u","t","h","_","D","e","c","c","a","n">>, <<"W","e","s","t","_","M","a","h","a","r","a","s","h","t","r","a">>,
      <<"S","o","u","t","h","_","T","a","m","i","l","_","N","a","d","u">>>>

\* the region of the first row whose band holds
FirstBand(lat, lon) ==
    BandRegion[CHOOSE i \in 1..9 :
                  Band(i, lat, lon) /\ \A j \in 1..(i - 1) : ~Band(j, lat, lon)]

\* C16: determine_region gives every numeric (lat, lon) the region of the
\* first row of the table whose lat/lon band holds, one of the nine named
\* regions, and returns the default Central_India only when lat or lon is no
\* number, never for a numeric coordinate.
C16_RegionByFirstBand ==
    Predicted(last, "determine_region") =>
        /\ (Numeric(last.args.lat) /\ Numeric(last.args.lon)) =>
              /\ last.result = FirstBand(last.args.lat.num, last.args.lon.num)
              /\ \E i \in 1..9 : last.result = BandRegion[i]
        /\ last.result = <<"C","e","n","t","r","a","l","_","I","n","d","i","a">> =>
              (~Numeric(last.args.lat) \/ ~Numeric(last.args.lon))

\* a coordinate that no band but the final else takes
C16_Witness ==
    /\ Predicted(last, "determine_region")
    /\ Numeric(last.args.lat) /\ Numeric(last.args.lon)
    /\ last.args.lat.num = 150000 /\ last.args.lon.num = 770000
    /\ last.result = <<"S","o","u","t","h","_","T","a","m","i","l","_","N","a","d","u">>

\* the default is returned for a latitude that is no number
C16_ReachDefault ==
    ~(/\ Predicted(last, "determine_region")
      /\ ~Numeric(last.args.lat)
      /\ last.result = <<"C","e","n","t","r","a","l","_","I","n","d","i","a">>)

\* a call of analyze_growth_patterns that returned its patterns
Analyzed(call) == Predicted(call, "analyze_growth_patterns") /\ ~call.raised

\* the trend that the thresholds give an average growth score
TrendOf(average) ==
    IF Binary64Greater(average, Double(7000)) THEN "RAPID_GROWTH"
    ELSE IF Binary64Greater(average, Double(5000)) THEN "MODERATE_GROWTH"
    ELSE IF Binary64Greater(average, Double(3000)) THEN "SLOW_GROWTH"
    ELSE "STABLE"

\* C17: for every group in the result of analyze_growth_patterns,
\* growth_trend is the trend of the reported average_growth_score:
\* RAPID_GROWTH iff the average is > 0.7, MODERATE_GROWTH iff > 0.5 and
\* <= 0.7, SLOW_GROWTH iff > 0.3 and <= 0.5, STABLE otherwise.
C17_TrendMatchesAverage ==
    Analyzed(last) =>
        \A i \in 1..Len(last.result) :
            last.result[i].growth_trend = TrendOf(last.result[i].average_growth_score)

Listed(pattern, factor) ==
    \E j \in 1..Len(pattern.risk_assessment.risk_factors) :
        pattern.risk_assessment.risk_factors[j] = factor

\* the sum of the weights of the listed factors, in units of 0.00001
WeightSum(pattern) ==
    (IF Listed(pattern, "HIGH_CONCENTRATION") THEN 20000 ELSE 0)
    + (IF Listed(pattern, "HIGH_VALUE_CONCENTRATION") THEN 30000 ELSE 0)
    + (IF Listed(pattern, "BORDER_VULNERABILITY") THEN 40000 ELSE 0)
    + (IF Listed(pattern, "RAPID_DEVELOPMENT") THEN 20000 ELSE 0)

\* C18: for every group, the risk assessment lists HIGH_CONCENTRATION iff
\* count > 10, HIGH_VALUE_CONCENTRATION iff the HIGH-priority fraction is
\* > 0.5, BORDER_VULNERABILITY iff the region is North_Kashmir, North_Punjab
\* or East_Bengal, RAPID_DEVELOPMENT iff the average growth score is > 0.8,
\* and the risk level is HIGH iff the sum of the listed factors' weights
\* (0.2, 0.3, 0.4, 0.2) is > 0.6, MEDIUM iff it is > 0.3 and <= 0.6, LOW
\* otherwise: a group with HIGH_CONCENTRATION and BORDER_VULNERABILITY only
\* (sum 0.6) is MEDIUM.
C18_RiskMatchesFactors ==
    Analyzed(last) =>
        \A i \in 1..Len(last.result) :
            LET pattern == last.result[i]
            IN  /\ Listed(pattern, "HIGH_CONCENTRATION") <=> pattern.total_assets > 10
                /\ Listed(pattern, "HIGH_VALUE_CONCENTRATION") <=>
                      2 * pattern.priority_distribution.HIGH > pattern.total_assets
                /\ Listed(pattern, "BORDER_VULNERABILITY") <=>
                      pattern.region \in {<<"N","o","r","t","h","_","K","a","s","h","m","i","r">>, <<"N","o","r","t","h","_","P","u","n","j","a","b">>, <<"E","a","s","t","_","B","e","n","g","a","l">>}
                /\ Listed(pattern, "RAPID_DEVELOPMENT") <=>
                      Binary64Greater(pattern.average_growth_score, Double(8000))
                /\ pattern.risk_assessment.risk_level =
                      IF WeightSum(pattern) > 60000 THEN "HIGH"
                      ELSE IF WeightSum(pattern) > 30000 THEN "MEDIUM" ELSE "LOW"

\* a call of generate_growth_predictions with an integer horizon
Generated(call) ==
    Predicted(call, "generate_growth_predictions") /\ Numeric(call.args)

\* C19: for every pattern (total_assets >= 1, predicted annual rate > 0) and
\* every horizon H >= 1, generate_growth_predictions yields a prediction with
\* exactly H predicted counts, one per month 1..H, whose last count is
\* strictly greater than the pattern's current count.
C19_HorizonCounts ==
    (Generated(last) /\ last.args.num >= 1) =>
        /\ Len(last.result) = Len(predictor.growth_patterns)
        /\ \A i \in 1..Len(last.result) :
              LET pattern    == predictor.growth_patterns[i]
                  prediction == last.result[i]
              IN  /\ prediction.key = pattern.key
                  /\ pattern.total_assets >= 1
                  /\ pattern.predicted_growth_rate > 0
                  /\ prediction.current_count = pattern.total_assets
                  /\ Len(prediction.predicted_counts) = last.args.num
                  /\ prediction.predicted_counts[last.args.num]
                        > pattern.total_assets * 10000

\* two patterns forecast over a year
C19_Witness ==
    /\ Generated(last) /\ last.args.num = MaxHorizon - 1
    /\ Len(last.result) = 2
    /\ Len(last.result[2].predicted_counts) = MaxHorizon - 1
    /\ last.result[2].current_count = 1

\* C20: generate_growth_predictions leaves the stored growth patterns as
\* they are, every field of every pattern, for every horizon; of the
\* predictor only the stored predictions change.
C20_PatternsReadOnly ==
    [][(Predicted(last', "generate_growth_predictions") /\ predictor' # predictor) =>
          /\ predictor'.growth_patterns = predictor.growth_patterns
          /\ predictor' = [predictor EXCEPT !.predictions = predictor'.predictions]
          /\ predictor'.predictions = last'.result]_vars

\* a forecast was stored and the patterns it was made from are still there
C20_Witness ==
    /\ Predicted(last, "generate_growth_predictions")
    /\ Len(predictor.growth_patterns) = 1
    /\ Len(predictor.predictions) = 1
    /\ predictor.predictions[1].key = predictor.growth_patterns[1].key
    /\ predictor.predictions[1].predicted_counts = << >>

\* the patterns that a new predictor makes of a batch
PatternsOf(assets_data) == analyze_growth_patterns(NewPredictor, assets_data).result

RECURSIVE TotalAssets(_)
TotalAssets(patterns) ==
    IF patterns = << >> THEN 0
    ELSE patterns[1].total_assets + TotalAssets(Tail(patterns))

\* C21: after any sequence of analyze_growth_patterns calls the stored
\* growth patterns are exactly those of the batch of the most recent call:
\* no group, count, priority bucket or growth score of an earlier batch
\* survives or is added to the new result.
C21_PatternsOfLatestBatch ==
    Analyzed(last) =>
        /\ predictor.growth_patterns = PatternsOf(last.args)
        /\ last.result = predictor.growth_patterns
        /\ TotalAssets(predictor.growth_patterns) <= Len(last.args.items)

\* a batch of one airport analysed after a batch of three facilities
C21_Witness ==
    /\ Analyzed(prev) /\ Analyzed(last)
    /\ Len(prev.result) = 1 /\ prev.result[1].total_assets = 3
    /\ prev.result[1].asset_type = <<"M","i","l","i","t","a","r","y"," ","F","a","c","i","l","i","t","y">>
    /\ Len(predictor.growth_patterns) = 1
    /\ predictor.growth_patterns[1].asset_type = <<"A","i","r","p","o","r","t">>
    /\ predictor.growth_patterns[1].total_assets = 1

\* the number of times x is in seq
Occurrences(seq, x) == Cardinality({i \in 1..Len(seq) : seq[i] = x})

\* b is a rearrangement of a
Rearranged(a, b) ==
    /\ Len(a) = Len(b)
    /\ \A i \in 1..Len(a) : Occurrences(a, a[i]) = Occurrences(b, a[i])

\* C24: the result of analyze_growth_patterns does not depend on the order
\* of the assets in the batch: for every rearrangement of the same assets
\* the set of group keys and each group's count, priority distribution,
\* average growth score, trend, predicted rate and risk assessment are the
\* same.
C24_OrderIrrelevant ==
    (/\ Analyzed(prev) /\ Analyzed(last)
     /\ Rearranged(prev.args.items, last.args.items)) =>
        {prev.result[i] : i \in 1..Len(prev.result)}
            = {last.result[i] : i \in 1..Len(last.result)}

\* C22: the hotspot ranking scores each pattern as 0.4 * predicted rate
\* + 0.3 * average growth score + 0.3 * (count / 20) and, for any N that the
\* caller selects, returns the N patterns of highest score (all of them when
\* there are fewer than N) in non-increasing order of score.
C22_TopHotspots ==
    Predicted(last, "identify_growth_hotspots") =>
        LET patterns == predictor.growth_patterns
            top      == last.selected
            Ranked(i, pattern) ==
                /\ top[i].asset_type = pattern.asset_type
                /\ top[i].region = pattern.region
                /\ top[i].hotspot_score = 40 * pattern.predicted_growth_rate
                                          + 30 * Decimal4(pattern.average_growth_score)
                                          + 15000 * pattern.total_assets
        IN  /\ Len(top) = Min2(last.args, Len(patterns))
            /\ \A i \in 1..Len(top) : \E k \in 1..Len(patterns) : Ranked(i, patterns[k])
            /\ \A i \in 1..(Len(top) - 1) : top[i].hotspot_score >= top[i + 1].hotspot_score
            /\ \A k \in 1..Len(patterns) :
                  \/ \E i \in 1..Len(top) : Ranked(i, patterns[k])
                  \/ \A i \in 1..Len(top) :
                        top[i].hotspot_score >= hotspot_score(patterns[k])

\* ------------------------------------------------------------------------
\* Properties of training and prediction on one engine
\* ------------------------------------------------------------------------

\* C23: without a lock, a predict call between the statements of a training
\* run of the same unit pairs the model parameters of the new fit with the
\* scaler that the run before stored, because the run fits the shared model
\* before it stores its scaler; and when a run fails between the fit and the
\* store, the same pair stays after the run.
C23_NewFitOldScaler ==
    /\ (/\ Predicted(last, "predict_growth_rate")
        /\ last.during.pc = "fitted" /\ last.scaler # 0) =>
            /\ last.real
            /\ last.model = last.during.run
            /\ last.scaler < last.during.run
    /\ (/\ training.pc = "idle" /\ training.failed = "evaluate"
        /\ "growth" \in DOMAIN engine.scalers) =>
            /\ engine.growth_predictor = training.run
            /\ engine.scalers.growth < training.run

\* a prediction made while the second run is between its fit and its store
C23_Witness ==
    /\ Predicted(last, "predict_growth_rate")
    /\ last.real
    /\ last.during = [pc |-> "fitted", run |-> 2, failed |-> ""]
    /\ last.model = 2 /\ last.scaler = 1

\* a prediction made after the second run failed between its fit and its store
C23_ReachAfterFailure ==
    ~(/\ Predicted(last, "predict_growth_rate")
      /\ last.during = [pc |-> "idle", run |-> 2, failed |-> "evaluate"]
      /\ last.model = 2 /\ last.scaler = 1)

\* C25: for every batch, also one with assets whose priority is missing,
\* null or none of HIGH, MEDIUM and LOW, every group that
\* analyze_growth_patterns returns has total_assets = HIGH + MEDIUM + LOW of
\* its priority_distribution = the number of growth scores averaged into
\* its average_growth_score.
C25_CountsAgree ==
    Analyzed(last) =>
        LET growth_analysis == AnalyzeLoop(last.args.items, 1, << >>)
        IN  \A i \in 1..Len(last.result) :
                LET pattern == last.result[i]
                IN  /\ pattern.total_assets =
                          pattern.priority_distribution.HIGH
                          + pattern.priority_distribution.MEDIUM
                          + pattern.priority_distribution.LOW
                    /\ pattern.total_assets = Len(growth_analysis[i].growth_indicators)

\* C26: after any sequence of analyze_growth_patterns and
\* generate_growth_predictions calls every stored prediction has the key of
\* a current growth pattern and that pattern's total_assets as its
\* current_count: no prediction made from an earlier batch outlives a later
\* analyze call.
C26_PredictionsOfCurrentPatterns ==
    \A i \in 1..Len(predictor.predictions) :
        \E k \in 1..Len(predictor.growth_patterns) :
            /\ predictor.growth_patterns[k].key = predictor.predictions[i].key
            /\ predictor.growth_patterns[k].total_assets
                  = predictor.predictions[i].current_count

\* C27: after any sequence of training runs on one engine a unit predicts
\* in trained mode (fitted model and stored scaler) only if the most recent
\* training of the unit reported metrics other than the failure sentinel.
C27_TrainedModeAfterSuccess ==
    Trained(last) =>
        \A u \in {"growth", "threat"} :
            (/\ \E i \in 1..Len(last.attempted) : last.attempted[i] = u
             /\ RealPrediction(engine, u)) => UnitMetrics(last.result, u) # Sentinel(u)

\* C28: for every asset whose type and priority are strings,
\* calculate_growth_score returns a value in [0.7, 1.0] whatever the type,
\* priority and region; so every group with at least one scored asset has
\* trend RAPID_GROWTH or MODERATE_GROWTH, never SLOW_GROWTH or STABLE, and a
\* predicted annual rate that is strictly positive and below the cap of 0.2.
C28_ScoreRange ==
    /\ Predicted(last, "calculate_growth_score") =>
          /\ ~Binary64Greater(Double(7000), last.result)
          /\ ~Binary64Greater(last.result, Double(10000))
    /\ Analyzed(last) =>
          \A i \in 1..Len(last.result) :
              LET pattern == last.result[i]
                  scored  == pattern.priority_distribution.HIGH
                             + pattern.priority_distribution.MEDIUM
                             + pattern.priority_distribution.LOW
              IN  scored >= 1 =>
                     /\ pattern.growth_trend \in {"RAPID_GROWTH", "MODERATE_GROWTH"}
                     /\ pattern.predicted_growth_rate > 0
                     /\ pattern.predicted_growth_rate < 2000

\* the lowest score, of a LOW priority military facility in North_Kashmir
C28_Witness ==
    /\ Predicted(last, "calculate_growth_score")
    /\ last.args.asset = PatternAsset(Absent, <<"L","O","W">>, <<"M","i","l","i","t","a","r","y"," ","F","a","c","i","l","i","t","y">>)
    /\ last.args.region = <<"N","o","r","t","h","_","K","a","s","h","m","i","r">>
    /\ last.result = Double(7000)

\* a group of scored assets whose trend is MODERATE_GROWTH
C28_ReachModerate ==
    ~(/\ Analyzed(last) /\ Len(last.result) = 1
      /\ last.result[1].priority_distribution.LOW = 1
      /\ last.result[1].growth_trend = "MODERATE_GROWTH")

\* the coordinate extract_asset_features resolves the asset to
Coordinate(asset) ==
    IF hasattr(DictGet(asset, "polygon", None), "centroid")
    THEN [lat |-> asset["polygon"].centroid.y, lon |-> asset["polygon"].centroid.x]
    ELSE [lat |-> 286139, lon |-> 772090]

\* the coordinate lies in the box of latitudes 6..38 and longitudes 68..98
InsideIndia(asset) ==
    /\ ~ExtractError(asset)
    /\ Coordinate(asset).lat >= 60000 /\ Coordinate(asset).lat <= 380000
    /\ Coordinate(asset).lon >= 680000 /\ Coordinate(asset).lon <= 980000

\* the threat score of the simulate formula with the given border term
ThreatWith(call, border_term, economic_activity) ==
    LET priority == DictGet(call.args, "priority", "LOW")
    IN  Max2(0, Min2(10000, 1000 + border_term
                            + (IF priority = "HIGH" THEN 4000
                               ELSE IF priority = "MEDIUM" THEN 2000 ELSE 0)
                            + economic_activity * 10 + call.env.noise))

BorderListed(call) ==
    \E j \in 1..Len(call.result.risk_factors) :
        call.result.risk_factors[j] = "BORDER_PROXIMITY"

\* C29: for every asset whose coordinate is a valid latitude/longitude inside
\* India's bounding region the extracted border_proximity is below 50, so the
\* simulated threat score always contains the +0.3 border term and the risk
\* factors always list BORDER_PROXIMITY; the default feature vector, with
\* border_proximity 200, gets neither.
C29_BorderTermInsideIndia ==
    /\ (last # None /\ ~("op" \in DOMAIN last)) =>
          /\ InsideIndia(last.args) =>
                /\ last.result.border_proximity >= 0
                /\ last.result.border_proximity < 50 * 10000
          /\ ExtractError(last.args) => last.result.border_proximity = 200 * 10000
    /\ Predicted(last, "predict_threat_level") =>
          /\ InsideIndia(last.args) =>
                /\ BorderListed(last)
                /\ last.result.predicted_threat_score =
                      ThreatWith(last, 3000,
                                 estimate_economic_activity(Coordinate(last.args).lat,
                                                            Coordinate(last.args).lon))
          /\ ExtractError(last.args) =>
                /\ ~BorderListed(last)
                /\ last.result.predicted_threat_score =
                      ThreatWith(last, 0, get_default_features.economic_activity)

\* the asset of India farthest from the four reference lines, 14.5 degrees
\* east of longitude 68, with its border term and risk factor
C29_Witness ==
    /\ Predicted(last, "predict_threat_level")
    /\ InsideIndia(last.args)
    /\ Coordinate(last.args) = [lat |-> 65000, lon |-> 825000]
    /\ extract_asset_features(last.args).border_proximity = 145000
    /\ last.env.noise = 0
    /\ BorderListed(last)
    /\ last.result.predicted_threat_score >= 4000

\* the default feature vector escapes both
C29_ReachDefault ==
    ~(/\ Predicted(last, "predict_threat_level")
      /\ ExtractError(last.args)
      /\ last.env.noise = 0
      /\ ~BorderListed(last)
      /\ last.result.predicted_threat_score < 4000)

\* a border_proximity_* factor is in the factor list of the classification
BorderFactorPresent(call) ==
    \E i \in 1..Len(call.result.threat_factors) :
        Contains(<<"b","o","r","d","e","r","_","p","r","o","x","i","m","i","t","y","_">>, call.result.threat_factors[i])

\* C30: in every classification a border_proximity_* factor is in the factor
\* list iff the border-proximity sub-score is positive, so the +10 of a border
\* factor goes exactly to the assets with a positive border sub-score.
C30_BorderFactorIffPositive ==
    Completed(last) =>
        (BorderFactorPresent(last) <=> last.result.analysis.border_proximity.score > 0)

\* 30 km north of the first border area: a positive sub-score and no factor
C30_ReachScoreWithoutFactor ==
    ~(/\ Completed(last)
      /\ last.result.coordinates = <<border_areas[1].coords[1] + 2703, border_areas[1].coords[2]>>
      /\ last.result.analysis.border_proximity.score > 0
      /\ ~BorderFactorPresent(last))

\* just inside 25 km of the first border area: the factor and a sub-score of 0
C30_ReachFactorWithoutScore ==
    ~(/\ Completed(last)
      /\ last.result.coordinates = <<border_areas[1].coords[1] + 2243, border_areas[1].coords[2]>>
      /\ last.result.analysis.border_proximity.score = 0
      /\ BorderFactorPresent(last))

====
